---- MODULE Spec2Model ----
(***************************************************************************)
(* Notionify: the generation endpoint (app/api/generate/route.ts), the     *)
(* publish endpoint's rate limiter (app/api/save/route.ts) and the         *)
(* template validator (lib/validation.ts).                                 *)
(*                                                                         *)
(* The specifications share the variables:                                 *)
(*   SpecLimiter  the generation limiter called directly under a           *)
(*                controlled clock;                                        *)
(*   SpecQuota    the generation and the publish limiter, one client;      *)
(*   SpecExtract  safeJSONParse and validateTemplateStructure applied to   *)
(*                one raw text drawn from a bounded set;                   *)
(*   Spec         the generation handler, one action per stretch of code   *)
(*                between two await points, any number of activations      *)
(*                interleaving at the awaits;                              *)
(*   SpecBurst    the handler under the burst of the rate-limit test of    *)
(*                scripts/test-app.js: twelve requests from one address.   *)
(*                                                                         *)
(* Text is a sequence of lexemes (TLA+ strings).  JSON text is written     *)
(* with the lexemes  {  }  [  ]  q (a double quote)  k: (a member key with *)
(* its colon)  and one lexeme per run of ordinary characters; separating   *)
(* commas and insignificant white space are left out of the lexeme stream. *)
(***************************************************************************)
EXTENDS Bags, FiniteSets, Integers, Sequences, TLC

VARIABLES
  now,               \* Date.now(), in ms
  rateLimitMap,      \* generate/route.ts: Map ip -> {count, resetTime}
  saveRateLimitMap,  \* save/route.ts: Map ip -> {count, resetTime}
  ret,               \* what the last limiter call returned, and to whom
  window,            \* history: per ip, when its current generation window
                     \* opened and how many calls it made in it
  rawText,           \* SpecExtract: the text handed to safeJSONParse
  extracted,         \* SpecExtract: what safeJSONParse returned
  env,               \* process.env: is HF_API_KEY set
  inflight,          \* bag of suspended activations of POST
  response,          \* the response most recently sent, with its history
  stats,             \* history: per ip, requests received and answered
  subject,           \* the function or handler called and its input
  verdicts,          \* SpecValidators: the results it returned, in order
  metrics,           \* MonitoringService: this.metrics
  usageStats,        \* MonitoringService: this.usageStats
  recorded           \* history: the number of recordMetric calls made

vars == <<now, rateLimitMap, saveRateLimitMap, ret, window, rawText,
          extracted, env, inflight, response, stats, subject, verdicts,
          metrics, usageStats, recorded>>

limiterVars == <<now, rateLimitMap, saveRateLimitMap, ret, window>>
extractVars == <<rawText, extracted>>
handlerVars == <<env, inflight, response, stats>>
validatorVars == <<subject, verdicts>>
monitorVars == <<metrics, usageStats, recorded>>

-----------------------------------------------------------------------------
(* Program constants *)

RATE_LIMIT_WINDOW == 60000
RATE_LIMIT_MAX_REQUESTS == 10
SAVE_RATE_LIMIT_WINDOW == 60000
SAVE_RATE_LIMIT_MAX_REQUESTS == 5

(* Bounds of the model *)

MaxEpoch == 2            \* the clock runs over MaxEpoch windows ...
MaxSkew == 1             \* ... and up to MaxSkew ms past each window edge
MaxCallsPerWindow == 12  \* calls one client makes inside one window

ClientIPs == {"203.0.113.7", "198.51.100.9"}

\* instants on both sides of every window edge
Instants ==
  {k * RATE_LIMIT_WINDOW + j : k \in 0..MaxEpoch, j \in 0..MaxSkew}

\* one instant in each successive window
CoarseInstants == {k * (RATE_LIMIT_WINDOW + 1) : k \in 0..MaxEpoch}
\* the clock seen by the handler: a first window and the one after it
HandlerInstants == {0, RATE_LIMIT_WINDOW + 1}

EmptyMap == [k \in {} |-> 0]

\* Map.prototype.set, and assignment to a property of an object
SetEntry(map, ip, entry) ==
  [k \in DOMAIN map \cup {ip} |-> IF k = ip THEN entry ELSE map[k]]

NoReturn == [fn |-> "none", ip |-> "", allowed |-> FALSE, error |-> ""]

-----------------------------------------------------------------------------
(* JavaScript values.  A string is the sequence of its lexemes.            *)

Undefined == [t |-> "undefined", v |-> 0]
Null == [t |-> "null", v |-> 0]
Num(n) == [t |-> "num", v |-> n]
Str(s) == [t |-> "str", v |-> s]
Arr(a) == [t |-> "arr", v |-> a]
Obj(f) == [t |-> "obj", v |-> f]

\* ToBoolean, as applied by !x and x || y
Truthy(x) ==
  CASE x.t = "undefined" -> FALSE
    [] x.t = "null"      -> FALSE
    [] x.t = "num"       -> x.v # 0
    [] x.t = "str"       -> x.v # <<>>
    [] OTHER             -> TRUE

\* x.k and x[i] for an x that is neither undefined nor null
Get(x, k) ==
  IF x.t = "obj" /\ k \in DOMAIN x.v THEN x.v[k] ELSE Undefined

At(x, i) ==
  IF x.t = "arr" /\ i \in DOMAIN x.v THEN x.v[i] ELSE Undefined

IsArray(x) == x.t = "arr"
TypeofObject(x) == x.t \in {"obj", "arr", "null"}
TypeofString(x) == x.t = "str"

(* Lexemes.  A lexeme is one character unless the table gives its length.  *)
OpenTag == "<script>"
CloseTag == "</script>"
Blank == "_"       \* one white-space character
Quote == "q"       \* the double quote delimiting a JSON string

Keys == {"title", "sections", "properties", "notes", "name", "type",
         "description", "error", "generated_text"}
KeyOrder == <<"title", "sections", "properties", "notes", "name", "type",
              "description", "error", "generated_text">>
KeyLexeme(k) == k \o ":"
KeyLexemes == {KeyLexeme(k) : k \in Keys}
KeyOf(lexeme) == CHOOSE k \in Keys : KeyLexeme(k) = lexeme

NumberLexemes == {"0", "7"}
NumberOf(lexeme) == IF lexeme = "7" THEN 7 ELSE 0

-----------------------------------------------------------------------------
(* String.prototype.replace with the script pattern of safeJSONParse, /g:  *)
(* every span from an opening script tag to the first closing tag after it *)
(* is removed; an opening tag that is never closed stays.                  *)

FirstIndex(s, from, lexeme) ==
  LET hits == {i \in from..Len(s) : s[i] = lexeme}
  IN IF hits = {} THEN 0 ELSE CHOOSE i \in hits : \A j \in hits : i <= j

LastIndex(s, lexeme) ==
  LET hits == {i \in 1..Len(s) : s[i] = lexeme}
  IN IF hits = {} THEN 0 ELSE CHOOSE i \in hits : \A j \in hits : i >= j

RECURSIVE StripScripts(_)
StripScripts(s) ==
  IF s = <<>> THEN <<>>
  ELSE LET close == FirstIndex(s, 2, CloseTag)
       IN IF Head(s) = OpenTag /\ close # 0
            THEN StripScripts(SubSeq(s, close + 1, Len(s)))
            ELSE <<Head(s)>> \o StripScripts(Tail(s))

(* cleanedText.match(/\{[\s\S]*\}/): from the first { to the last }.      *)
JsonMatchBadLazy(s) ==
  LET first == FirstIndex(s, 1, "{")
      last  == IF first = 0 THEN 0 ELSE FirstIndex(s, first, "}")
  IN IF first = 0 \/ last = 0
       THEN [found |-> FALSE, span |-> <<>>]
       ELSE [found |-> TRUE, span |-> SubSeq(s, first, last)]

JsonMatch(s) ==
  LET first == FirstIndex(s, 1, "{")
      last  == LastIndex(s, "}")
  IN IF first = 0 \/ last < first
       THEN [found |-> FALSE, span |-> <<>>]
       ELSE [found |-> TRUE, span |-> SubSeq(s, first, last)]

-----------------------------------------------------------------------------
(* JSON.parse over lexemes:                                                *)
(*   value ::= { (key value)* } | [ value* ] | q lexeme* q | number | null *)
(* and nothing may follow the value.                                       *)

ParseFail == [ok |-> FALSE, val |-> Undefined, rest |-> <<>>]

RECURSIVE ParseValue(_), ParseMembers(_, _), ParseElements(_, _)

ParseValue(s) ==
  IF s = <<>> THEN ParseFail
  ELSE CASE Head(s) = "{" -> ParseMembers(Tail(s), EmptyMap)
         [] Head(s) = "[" -> ParseElements(Tail(s), <<>>)
         [] Head(s) = Quote ->
              LET close == FirstIndex(s, 2, Quote)
              IN IF close = 0 THEN ParseFail
                 ELSE [ok   |-> TRUE,
                       val  |-> Str(SubSeq(s, 2, close - 1)),
                       rest |-> SubSeq(s, close + 1, Len(s))]
         [] Head(s) \in NumberLexemes ->
              [ok |-> TRUE, val |-> Num(NumberOf(Head(s))), rest |-> Tail(s)]
         [] Head(s) = "null" ->
              [ok |-> TRUE, val |-> Null, rest |-> Tail(s)]
         [] OTHER -> ParseFail

ParseMembers(s, acc) ==
  IF s = <<>> THEN ParseFail
  ELSE IF Head(s) = "}"
    THEN [ok |-> TRUE, val |-> Obj(acc), rest |-> Tail(s)]
  ELSE IF Head(s) \in KeyLexemes
    THEN LET r == ParseValue(Tail(s))
         IN IF r.ok
              THEN ParseMembers(r.rest, SetEntry(acc, KeyOf(Head(s)), r.val))
              ELSE ParseFail
  ELSE ParseFail

ParseElements(s, acc) ==
  IF s = <<>> THEN ParseFail
  ELSE IF Head(s) = "]"
    THEN [ok |-> TRUE, val |-> Arr(acc), rest |-> Tail(s)]
  ELSE LET r == ParseValue(s)
       IN IF r.ok THEN ParseElements(r.rest, Append(acc, r.val))
          ELSE ParseFail

JSONParse(s) ==
  LET r == ParseValue(s)
  IN IF r.ok /\ r.rest = <<>>
       THEN [ok |-> TRUE, val |-> r.val]
       ELSE [ok |-> FALSE, val |-> Undefined]

(* JSON.stringify of a value that holds no undefined.                      *)
RECURSIVE JSONStringify(_), StringifyMembers(_, _), StringifyElements(_)

JSONStringify(x) ==
  CASE x.t = "obj" -> <<"{">> \o StringifyMembers(x, 1) \o <<"}">>
    [] x.t = "arr" -> <<"[">> \o StringifyElements(x.v) \o <<"]">>
    [] x.t = "str" -> <<Quote>> \o x.v \o <<Quote>>
    [] x.t = "num" -> IF x.v = 7 THEN <<"7">> ELSE <<"0">>
    [] OTHER       -> <<"null">>

StringifyMembers(x, i) ==
  IF i > Len(KeyOrder) THEN <<>>
  ELSE (IF KeyOrder[i] \in DOMAIN x.v
          THEN <<KeyLexeme(KeyOrder[i])>> \o JSONStringify(x.v[KeyOrder[i]])
          ELSE <<>>)
       \o StringifyMembers(x, i + 1)

StringifyElements(a) ==
  IF a = <<>> THEN <<>>
  ELSE JSONStringify(Head(a)) \o StringifyElements(Tail(a))

-----------------------------------------------------------------------------
(* safeJSONParse (generate/route.ts).  A text that is no string has no     *)
(* replace method: the TypeError is caught like every other one.           *)

FallbackTitle == "Template Generation Error"
FallbackNotes == "Failed to parse AI response. Please try again."

FallbackBadNoTitle ==
  Obj([sections   |-> Arr(<<>>),
       properties |-> Arr(<<>>),
       notes      |-> Str(<<FallbackNotes>>)])

Fallback ==
  Obj([title      |-> Str(<<FallbackTitle>>),
       sections   |-> Arr(<<>>),
       properties |-> Arr(<<>>),
       notes      |-> Str(<<FallbackNotes>>)])

safeJSONParseBadWholeText(text) ==
  IF ~TypeofString(text) THEN Fallback
  ELSE LET cleanedText == StripScripts(text.v)
           jsonMatch   == JsonMatch(cleanedText)
       IN IF ~jsonMatch.found THEN Fallback
          ELSE LET parsed == JSONParse(cleanedText)
               IN IF parsed.ok THEN parsed.val ELSE Fallback

safeJSONParse(text) ==
  IF ~TypeofString(text) THEN Fallback
  ELSE LET cleanedText == StripScripts(text.v)
           jsonMatch   == JsonMatch(cleanedText)
       IN IF ~jsonMatch.found THEN Fallback
          ELSE LET parsed == JSONParse(jsonMatch.span)
               IN IF parsed.ok THEN parsed.val ELSE Fallback

-----------------------------------------------------------------------------
(* String length and trim over lexemes.                                    *)

RunLength ==
  [x \in {"a*201", "a*301", "a*501", "a*997", "a*998", "a*1001",
          "a*1048577"} |->
     CASE x = "a*201" -> 201
       [] x = "a*998" -> 998
       [] x = "a*1048577" -> 1048577
       [] x = "a*301" -> 301
       [] x = "a*501" -> 501
       [] x = "a*997" -> 997
       [] OTHER       -> 1001]

LexLen(x) ==
  CASE x \in DOMAIN RunLength -> RunLength[x]
    [] x = OpenTag             -> 8
    [] x = CloseTag            -> 9
    [] x = FallbackTitle       -> 25
    [] x = FallbackNotes       -> 46
    [] x = "javascript:"       -> 11
    [] x = "onload="           -> 7
    [] x = "eval("             -> 5
    [] x = "function("         -> 9
    [] x = "<ScRipt"           -> 7
    [] x = "JavaScript:"       -> 11
    [] x = "ONLOAD ="          -> 8
    [] x = "eval ("            -> 6
    [] x = "Function ("        -> 10
    [] x \in {"import", "IMPORT", "casino", "Casino"} -> 6
    [] x = "require("          -> 8
    [] x = "hf_"               -> 3
    [] x \in {"ghp_", "gho_"}  -> 4
    [] OTHER                   -> 1

RECURSIVE StrLen(_)
StrLen(s) == IF s = <<>> THEN 0 ELSE LexLen(Head(s)) + StrLen(Tail(s))

RECURSIVE TrimStart(_)
TrimStart(s) ==
  IF s # <<>> /\ Head(s) = Blank THEN TrimStart(Tail(s)) ELSE s

RECURSIVE TrimEnd(_)
TrimEnd(s) ==
  IF s # <<>> /\ s[Len(s)] = Blank
    THEN TrimEnd(SubSeq(s, 1, Len(s) - 1)) ELSE s

Trim(s) == TrimEnd(TrimStart(s))

-----------------------------------------------------------------------------
(* validateTemplateStructure (lib/validation.ts).  Each part gives the     *)
(* errors and the warnings it pushes, in the order it pushes them.         *)

validPropertyTypes ==
  <<"text", "select", "multi-select", "number", "date", "checkbox", "url",
    "email", "phone", "formula", "relation", "rollup", "created_time",
    "created_by", "last_edited_time", "last_edited_by", "files", "status">>

RECURSIVE JoinComma(_)
JoinComma(list) ==
  IF list = <<>> THEN ""
  ELSE IF Len(list) = 1 THEN Head(list)
  ELSE Head(list) \o ", " \o JoinComma(Tail(list))

Includes(list, x) == \E i \in DOMAIN list : <<list[i]>> = x

Pushed(errors, warnings) == [errors |-> errors, warnings |-> warnings]
Nothing == Pushed(<<>>, <<>>)
Both(a, b) == Pushed(a.errors \o b.errors, a.warnings \o b.warnings)

\* a required string member: missing or no string, empty once trimmed, or
\* longer than `limit` (limit 0: no length warning)
RequiredString(value, label, what, limit) ==
  IF ~Truthy(value) \/ ~TypeofString(value)
    THEN Pushed(<<label \o what \o " is required and must be a string">>, <<>>)
  ELSE IF StrLen(Trim(value.v)) = 0
    THEN Pushed(<<label \o what \o " cannot be empty">>, <<>>)
  ELSE IF limit > 0 /\ StrLen(value.v) > limit
    THEN Pushed(<<>>, <<label \o what \o " is quite long">>)
  ELSE Nothing

CheckTitle(template) ==
  LET title == Get(template, "title")
  IN IF ~Truthy(title) \/ ~TypeofString(title)
       THEN Pushed(<<"Title is required and must be a string">>, <<>>)
     ELSE IF StrLen(Trim(title.v)) = 0
       THEN Pushed(<<"Title cannot be empty">>, <<>>)
     ELSE IF StrLen(title.v) > 200
       THEN Pushed(<<>>, <<"Title is quite long, consider shortening it">>)
     ELSE Nothing

CheckSection(section, index) ==
  LET label == "Section " \o ToString(index + 1)
  IN IF ~Truthy(section) \/ ~TypeofObject(section)
       THEN Pushed(<<label \o " must be an object">>, <<>>)
       ELSE Both(RequiredString(Get(section, "name"), label, ": name", 0),
                 RequiredString(Get(section, "description"), label,
                                ": description", 500))

CheckType(property, label) ==
  LET type == Get(property, "type")
  IN IF ~Truthy(type) \/ ~TypeofString(type)
       THEN Pushed(<<label \o ": type is required and must be a string">>, <<>>)
     ELSE IF ~Includes(validPropertyTypes, type.v)
       THEN Pushed(<<label \o ": type must be one of: "
                           \o JoinComma(validPropertyTypes)>>, <<>>)
     ELSE Nothing

CheckProperty(property, index) ==
  LET label == "Property " \o ToString(index + 1)
  IN IF ~Truthy(property) \/ ~TypeofObject(property)
       THEN Pushed(<<label \o " must be an object">>, <<>>)
       ELSE Both(RequiredString(Get(property, "name"), label, ": name", 0),
            Both(CheckType(property, label),
                 RequiredString(Get(property, "description"), label,
                                ": description", 300)))

\* sections.forEach / properties.forEach, index counted from 0
RECURSIVE EachSection(_, _)
EachSectionBadStopsAtFirst(items, index) ==
  IF index >= Len(items) THEN Nothing
  ELSE LET first == CheckSection(items[index + 1], index)
       IN IF first.errors # <<>> THEN first
          ELSE Both(first, EachSection(items, index + 1))

EachSection(items, index) ==
  IF index >= Len(items) THEN Nothing
  ELSE Both(CheckSection(items[index + 1], index),
            EachSection(items, index + 1))

RECURSIVE EachProperty(_, _)
EachProperty(items, index) ==
  IF index >= Len(items) THEN Nothing
  ELSE Both(CheckProperty(items[index + 1], index),
            EachProperty(items, index + 1))

CheckSections(template) ==
  LET sections == Get(template, "sections")
  IN IF ~IsArray(sections)
       THEN Pushed(<<"Sections must be an array">>, <<>>)
       ELSE Both(IF Len(sections.v) = 0
                   THEN Pushed(<<>>, <<"No sections defined">>)
                 ELSE IF Len(sections.v) > 20
                   THEN Pushed(<<>>, <<"Many sections defined, consider simplifying">>)
                 ELSE Nothing,
                 EachSection(sections.v, 0))

CheckProperties(template) ==
  LET properties == Get(template, "properties")
  IN IF ~IsArray(properties)
       THEN Pushed(<<"Properties must be an array">>, <<>>)
       ELSE Both(IF Len(properties.v) = 0
                   THEN Pushed(<<>>, <<"No properties defined">>)
                 ELSE IF Len(properties.v) > 50
                   THEN Pushed(<<>>, <<"Many properties defined, consider simplifying">>)
                 ELSE Nothing,
                 EachProperty(properties.v, 0))

CheckNotes(template) ==
  LET notes == Get(template, "notes")
  IN IF notes.t = "undefined" THEN Nothing
     ELSE IF ~TypeofString(notes)
       THEN Pushed(<<"Notes must be a string if provided">>, <<>>)
     ELSE IF StrLen(notes.v) > 1000
       THEN Pushed(<<>>, <<"Notes are quite long">>)
     ELSE Nothing

validateTemplateStructure(template) ==
  IF ~Truthy(template) \/ ~TypeofObject(template)
    THEN [isValid |-> FALSE, errors |-> <<"Template must be an object">>,
          warnings |-> <<>>]
    ELSE LET all == Both(CheckTitle(template),
                    Both(CheckSections(template),
                    Both(CheckProperties(template), CheckNotes(template))))
         IN [isValid  |-> Len(all.errors) = 0,
             errors   |-> all.errors,
             warnings |-> all.warnings]

(* The structure check made by the generation handler itself.              *)
TemplateAcceptedBadNeedsNotes(template) ==
  /\ Truthy(Get(template, "title"))
  /\ IsArray(Get(template, "sections"))
  /\ IsArray(Get(template, "properties"))
  /\ Truthy(Get(template, "notes"))

TemplateAccepted(template) ==
  /\ Truthy(Get(template, "title"))
  /\ IsArray(Get(template, "sections"))
  /\ IsArray(Get(template, "properties"))

-----------------------------------------------------------------------------
(* The fixed-window limiter.  CheckLimit is the body shared, token for     *)
(* token, by checkRateLimit and checkSaveRateLimit: it gives the map after *)
(* the call and the value returned.                                        *)

NewWindowBadGe(map, ip, t) ==
  \/ ip \notin DOMAIN map
  \/ t >= map[ip].resetTime

NewWindow(map, ip, t) ==
  \/ ip \notin DOMAIN map
  \/ t > map[ip].resetTime

CheckLimitBadSlides(map, ip, t, windowMs, maxRequests, message) ==
  IF NewWindow(map, ip, t)
    THEN [map     |-> SetEntry(map, ip, [count |-> 1, resetTime |-> t + windowMs]),
          allowed |-> TRUE,
          error   |-> ""]
    ELSE IF map[ip].count >= maxRequests
      THEN [map |-> map, allowed |-> FALSE, error |-> message]
      ELSE [map     |-> SetEntry(map, ip, [count |-> map[ip].count + 1,
                                           resetTime |-> t + windowMs]),
            allowed |-> TRUE,
            error   |-> ""]

CheckLimitBadLocksOut(map, ip, t, windowMs, maxRequests, message) ==
  IF ip \in DOMAIN map /\ map[ip].count >= maxRequests
    THEN [map |-> map, allowed |-> FALSE, error |-> message]
    ELSE IF NewWindow(map, ip, t)
      THEN [map     |-> SetEntry(map, ip, [count |-> 1, resetTime |-> t + windowMs]),
            allowed |-> TRUE,
            error   |-> ""]
      ELSE [map     |-> SetEntry(map, ip, [map[ip] EXCEPT !.count = @ + 1]),
            allowed |-> TRUE,
            error   |-> ""]

CheckLimit(map, ip, t, windowMs, maxRequests, message) ==
  IF NewWindow(map, ip, t)
    THEN [map     |-> SetEntry(map, ip, [count |-> 1, resetTime |-> t + windowMs]),
          allowed |-> TRUE,
          error   |-> ""]
    ELSE IF map[ip].count >= maxRequests
      THEN [map |-> map, allowed |-> FALSE, error |-> message]
      ELSE [map     |-> SetEntry(map, ip, [map[ip] EXCEPT !.count = @ + 1]),
            allowed |-> TRUE,
            error   |-> ""]

checkRateLimitBadNoCount(ip, t) ==
  IF NewWindow(rateLimitMap, ip, t)
    THEN [map     |-> SetEntry(rateLimitMap, ip,
                               [count |-> 1,
                                resetTime |-> t + RATE_LIMIT_WINDOW]),
          allowed |-> TRUE,
          error   |-> ""]
    ELSE IF rateLimitMap[ip].count >= RATE_LIMIT_MAX_REQUESTS
      THEN [map |-> rateLimitMap, allowed |-> FALSE,
            error |-> "Rate limit exceeded. Please try again later."]
      ELSE [map |-> rateLimitMap, allowed |-> TRUE, error |-> ""]

checkRateLimit(ip, t) ==
  CheckLimit(rateLimitMap, ip, t, RATE_LIMIT_WINDOW, RATE_LIMIT_MAX_REQUESTS,
             "Rate limit exceeded. Please try again later.")

checkSaveRateLimitBadSharedMap(ip, t) ==
  CheckLimit(rateLimitMap, ip, t, SAVE_RATE_LIMIT_WINDOW,
             SAVE_RATE_LIMIT_MAX_REQUESTS,
             "Save rate limit exceeded. Please try again later.")

checkSaveRateLimit(ip, t) ==
  CheckLimit(saveRateLimitMap, ip, t, SAVE_RATE_LIMIT_WINDOW,
             SAVE_RATE_LIMIT_MAX_REQUESTS,
             "Save rate limit exceeded. Please try again later.")

(* History of the generation windows, kept apart from the limiter's own    *)
(* entry: a window opens with a client's first call and with its first     *)
(* call made after the open window's 60000 ms have elapsed.                *)
WindowOpen(ip, t) ==
  /\ ip \in DOMAIN window
  /\ t <= window[ip].opened + RATE_LIMIT_WINDOW

NoteCall(ip, t, allowed) ==
  LET pass == IF allowed THEN 1 ELSE 0
  IN IF WindowOpen(ip, t)
       THEN SetEntry(window, ip, [window[ip] EXCEPT !.calls = @ + 1,
                                                    !.passed = @ + pass])
       ELSE SetEntry(window, ip,
                     [opened |-> t, calls |-> 1, passed |-> pass,
                      refused |-> 0,
                      index  |-> IF ip \in DOMAIN window
                                   THEN window[ip].index + 1 ELSE 1])

CanCall(ip) ==
  WindowOpen(ip, now) => window[ip].calls < MaxCallsPerWindow

-----------------------------------------------------------------------------
(* SpecLimiter: the limiters called directly.                              *)

CallCheckRateLimit(ip) ==
  /\ CanCall(ip)
  /\ LET r == checkRateLimit(ip, now)
     IN /\ rateLimitMap' = r.map
        /\ ret' = [fn |-> "checkRateLimit", ip |-> ip,
                   allowed |-> r.allowed, error |-> r.error]
        /\ window' = NoteCall(ip, now, r.allowed)
  /\ UNCHANGED <<now, saveRateLimitMap, extractVars, validatorVars, monitorVars, handlerVars>>

CallCheckSaveRateLimit(ip) ==
  /\ LET r == checkSaveRateLimit(ip, now)
     IN /\ saveRateLimitMap' = r.map
        /\ ret' = [fn |-> "checkSaveRateLimit", ip |-> ip,
                   allowed |-> r.allowed, error |-> r.error]
  /\ UNCHANGED <<now, rateLimitMap, window, extractVars, validatorVars, monitorVars, handlerVars>>

Tick(instants) ==
  /\ \E t \in instants : t > now /\ now' = t
  /\ UNCHANGED <<rateLimitMap, saveRateLimitMap, ret, window,
                 extractVars, validatorVars, monitorVars, handlerVars>>

InitLimiter ==
  /\ now = 0
  /\ rateLimitMap = EmptyMap
  /\ saveRateLimitMap = EmptyMap
  /\ ret = NoReturn
  /\ window = EmptyMap

NoResult == [isValid |-> FALSE, errors |-> <<>>, warnings |-> <<>>]
NotExtracted == [stage |-> "none", val |-> Undefined, result |-> NoResult]

InitNoExtract ==
  /\ rawText = Str(<<>>)
  /\ extracted = NotExtracted

NoSubject == [fn |-> "", arg |-> Undefined]

NoUsage ==
  [totalRequests |-> 0, successfulRequests |-> 0, failedRequests |-> 0,
   averageResponseTime |-> [total |-> 0, count |-> 1]]

InitNoMonitor ==
  /\ metrics = <<>>
  /\ usageStats = NoUsage
  /\ recorded = 0

InitNoValidator ==
  /\ subject = NoSubject
  /\ verdicts = <<>>

NoResponse ==
  [status |-> 0, ok |-> FALSE, error |-> "", template |-> Undefined,
   prompt |-> Undefined, upstream |-> 0, data |-> Undefined, log |-> <<>>]

\* history: requests received and not yet answered
NoStats == [pending |-> 0]

InitNoHandler ==
  /\ env = [HF_API_KEY |-> TRUE]
  /\ inflight = EmptyBag
  /\ response = NoResponse
  /\ stats = NoStats

InitLimiters ==
  InitLimiter /\ InitNoMonitor /\ InitNoExtract /\ InitNoHandler /\ InitNoValidator

NextLimiter ==
  \/ \E ip \in ClientIPs : CallCheckRateLimit(ip)
  \/ Tick(Instants)

SpecLimiter == InitLimiters /\ [][NextLimiter]_vars

\* One client using both operations, over several windows.
QuotaClients == {"203.0.113.7"}

NextQuota ==
  \/ \E ip \in QuotaClients : CallCheckRateLimit(ip)
  \/ \E ip \in QuotaClients : CallCheckSaveRateLimit(ip)
  \/ Tick(CoarseInstants)

SpecQuota == InitLimiters /\ [][NextQuota]_vars

\* Two clients using both operations, at the first and at the last instant
\* of the windows opened at 0.
SharedInstants == {0, RATE_LIMIT_WINDOW}

NextShared ==
  \/ \E ip \in ClientIPs : CallCheckRateLimit(ip)
  \/ \E ip \in ClientIPs : CallCheckSaveRateLimit(ip)
  \/ Tick(SharedInstants)

SpecShared == InitLimiters /\ [][NextShared]_vars
-----------------------------------------------------------------------------
(* Properties of the limiters *)

Min(a, b) == IF a < b THEN a ELSE b

\* the step is a call of checkRateLimit for ip
Called(ip) ==
  /\ ip \in DOMAIN window'
  /\ ip \notin DOMAIN window \/ window'[ip] # window[ip]

\* the step is a call of checkSaveRateLimit
SaveCalled ==
  /\ ret'.fn = "checkSaveRateLimit"
  /\ window' = window
  /\ now' = now

\* C1: in each window of a client (opened by its first call, or by its first
\* call made after the previous window's 60000 ms elapsed) the first 10
\* calls of checkRateLimit are allowed and the 11th and later ones are
\* denied; the call that opens a window leaves the entry at count 1 with
\* resetTime = now + 60000, and every later call of the window leaves
\* resetTime alone and the count at the number of calls allowed so far.
C1_FirstTenThenDenied ==
  [][\A ip \in ClientIPs :
       Called(ip) =>
         LET n == window'[ip].calls
         IN /\ ret'.fn = "checkRateLimit" /\ ret'.ip = ip
            /\ ret'.allowed <=> n <= RATE_LIMIT_MAX_REQUESTS
            /\ n = 1 => rateLimitMap'[ip] =
                          [count |-> 1, resetTime |-> now + RATE_LIMIT_WINDOW]
            /\ rateLimitMap'[ip].count = Min(n, RATE_LIMIT_MAX_REQUESTS)
            /\ rateLimitMap'[ip].resetTime =
                 window'[ip].opened + RATE_LIMIT_WINDOW]_vars

\* C1 witness: a client was denied its 11th call in its second window, so
\* its first window elapsed and the call after it was allowed.
C1_Witness ==
  \E ip \in ClientIPs :
    /\ ret = [fn |-> "checkRateLimit", ip |-> ip, allowed |-> FALSE,
              error |-> "Rate limit exceeded. Please try again later."]
    /\ window[ip].index = 2
    /\ window[ip].calls = RATE_LIMIT_MAX_REQUESTS + 1
    /\ rateLimitMap[ip].count = RATE_LIMIT_MAX_REQUESTS

\* C3: a call of checkRateLimit leaves saveRateLimitMap unchanged, a call of
\* checkSaveRateLimit leaves rateLimitMap unchanged, and each operation is
\* denied only when its own entry is at its own maximum (10 for generation,
\* 5 for publish) inside its own live window, whatever the other one holds.
C3_SeparateQuotas ==
  [][/\ \A ip \in ClientIPs :
          Called(ip) =>
            /\ saveRateLimitMap' = saveRateLimitMap
            /\ ~ret'.allowed =>
                 /\ ip \in DOMAIN rateLimitMap
                 /\ rateLimitMap[ip].count >= RATE_LIMIT_MAX_REQUESTS
                 /\ now <= rateLimitMap[ip].resetTime
     /\ SaveCalled =>
          /\ rateLimitMap' = rateLimitMap
          /\ ~ret'.allowed =>
               /\ ret'.ip \in DOMAIN saveRateLimitMap
               /\ saveRateLimitMap[ret'.ip].count >= SAVE_RATE_LIMIT_MAX_REQUESTS
               /\ now <= saveRateLimitMap[ret'.ip].resetTime]_vars

\* C3 witness: a publish call is allowed while the same client's generation
\* quota is used up and a generation call of the window has been denied.
C3_Witness ==
  \E ip \in ClientIPs :
    /\ ret = [fn |-> "checkSaveRateLimit", ip |-> ip, allowed |-> TRUE,
              error |-> ""]
    /\ ip \in DOMAIN rateLimitMap
    /\ rateLimitMap[ip].count = RATE_LIMIT_MAX_REQUESTS
    /\ now <= rateLimitMap[ip].resetTime
    /\ window[ip].calls > RATE_LIMIT_MAX_REQUESTS
-----------------------------------------------------------------------------
(* SpecExtract: safeJSONParse, then validateTemplateStructure, applied to  *)
(* one raw text.                                                           *)

MaxTextLen == 4    \* lexemes of an arbitrary text
MaxProse == 1      \* lexemes of prose on each side of a JSON document

TextAlphabet == {"{", "}", "x", OpenTag, CloseTag, "title:", "7"}
ProseAlphabet == {"x", "{", "}"}

SeqsUpTo(alphabet, n) ==
  UNION {[1..k -> alphabet] : k \in 0..n}

Section(name, description) ==
  Obj([name |-> Str(name), description |-> Str(description)])

Property(name, type, description) ==
  Obj([name |-> Str(name), type |-> Str(type),
       description |-> Str(description)])

Template(title, sections, properties) ==
  Obj([title |-> Str(title), sections |-> Arr(sections),
       properties |-> Arr(properties)])

DailyPlanner ==
  Template(<<"Daily", Blank, "Planner">>,
           <<Section(<<"Today">>, <<"Tasks", Blank, "for", Blank, "today">>)>>,
           <<Property(<<"Status">>, <<"status">>, <<"Task", Blank, "status">>)>>)

Minimal == Template(<<"T">>, <<>>, <<>>)

InvalidKind ==
  Template(<<"T">>, <<>>,
           <<Property(<<"Status">>, <<"invalid-kind">>, <<"Task">>)>>)

EmptySectionName ==
  Template(<<"T">>, <<Section(<<>>, <<"Tasks">>)>>, <<>>)

ScriptTitle == Template(<<OpenTag, "a", CloseTag>>, <<>>, <<>>)

ScriptInTitle == Template(<<"T", OpenTag, "a", CloseTag>>, <<>>, <<>>)

NoTitle == Obj([sections |-> Arr(<<>>), properties |-> Arr(<<>>)])

Documents ==
  {DailyPlanner, Minimal, InvalidKind, EmptySectionName, ScriptTitle,
   ScriptInTitle, NoTitle}

FramedTexts ==
  {pre \o JSONStringify(doc) \o post :
     pre \in SeqsUpTo(ProseAlphabet, MaxProse),
     post \in SeqsUpTo(ProseAlphabet, MaxProse),
     doc \in Documents}

RawTexts ==
  {Str(text) : text \in SeqsUpTo(TextAlphabet, MaxTextLen) \cup FramedTexts}
    \cup {Num(7)}

InitExtract ==
  /\ rawText \in RawTexts
  /\ extracted = NotExtracted
  /\ InitLimiter /\ InitNoMonitor
  /\ InitNoHandler
  /\ InitNoValidator

Extract ==
  /\ extracted.stage = "none"
  /\ extracted' = [extracted EXCEPT !.stage = "parsed",
                                    !.val = safeJSONParse(rawText)]
  /\ UNCHANGED <<rawText, limiterVars, handlerVars, validatorVars, monitorVars>>

Validate ==
  /\ extracted.stage = "parsed"
  /\ extracted' = [extracted EXCEPT
                     !.stage = "validated",
                     !.result = validateTemplateStructure(extracted.val)]
  /\ UNCHANGED <<rawText, limiterVars, handlerVars, validatorVars, monitorVars>>

NextExtract == Extract \/ Validate

SpecExtract == InitExtract /\ [][NextExtract]_vars
-----------------------------------------------------------------------------
(* Properties of the extractor *)

Positions(s, lexeme) == {i \in 1..Len(s) : s[i] = lexeme}
Least(S) == CHOOSE i \in S : \A j \in S : i <= j
Greatest(S) == CHOOSE i \in S : \A j \in S : i >= j

\* the text has a { with a } somewhere after it
HasBraceSpan(s) ==
  \E i \in Positions(s, "{"), j \in Positions(s, "}") : i < j

\* from the first { of the text to its last }
BraceSpan(s) ==
  SubSeq(s, Least(Positions(s, "{")), Greatest(Positions(s, "}")))

\* safeJSONParse has nothing to parse in s: no brace span, or one that is
\* no JSON
Unparsable(s) == ~HasBraceSpan(s) \/ ~JSONParse(BraceSpan(s)).ok

FallbackResult ==
  [isValid  |-> TRUE,
   errors   |-> <<>>,
   warnings |-> <<"No sections defined", "No properties defined">>]

\* C7 as stated: whenever the raw text has no brace span, or its first-{-to-
\* last-} span fails to parse, safeJSONParse returns the fallback.
C7_Original ==
  (extracted.stage # "none" /\ TypeofString(rawText) /\ Unparsable(rawText.v))
    => extracted.val = Fallback

\* C7: safeJSONParse returns a value for every text, and for every text that
\* is no string, or that once its script elements are removed has no brace
\* span or a first-{-to-last-} span that fails to parse, the value is the
\* one fallback object (title "Template Generation Error", empty sections,
\* empty properties, the notes string); validateTemplateStructure finds it
\* valid with no errors and the two warnings about the empty sequences.
C7_FallbackOnFailure ==
  /\ extracted.stage # "none" => extracted.val.t = "obj"
  /\ (extracted.stage # "none"
        /\ (TypeofString(rawText) => Unparsable(StripScripts(rawText.v))))
       => /\ extracted.val = Fallback
          /\ extracted.val.v.title = Str(<<"Template Generation Error">>)
          /\ extracted.val.v.sections = Arr(<<>>)
          /\ extracted.val.v.properties = Arr(<<>>)
          /\ TypeofString(extracted.val.v.notes)
          /\ extracted.stage = "validated" => extracted.result = FallbackResult

\* C7 witness: a text whose brace span is no JSON was answered by the
\* fallback, which then passed the validator.
C7_Witness ==
  /\ extracted.stage = "validated"
  /\ TypeofString(rawText)
  /\ HasBraceSpan(StripScripts(rawText.v))
  /\ ~JSONParse(BraceSpan(StripScripts(rawText.v))).ok
  /\ extracted.val = Fallback
  /\ extracted.result.isValid
  /\ Len(extracted.result.warnings) = 2

\* the spans of s that are well-formed JSON objects, and the outermost ones
ObjectSpans(s) ==
  {p \in Positions(s, "{") \X Positions(s, "}") :
     p[1] < p[2] /\ JSONParse(SubSeq(s, p[1], p[2])).ok}

OutermostObjects(s) ==
  {p \in ObjectSpans(s) :
     \A q \in ObjectSpans(s) : (q[1] <= p[1] /\ p[2] <= q[2]) => q = p}

TheObject(s) == CHOOSE p \in OutermostObjects(s) : TRUE

\* C8 as stated: a text holding exactly one well-formed JSON object, with or
\* without prose around it, yields the parse of that object.
C8_Original ==
  (extracted.stage # "none" /\ TypeofString(rawText)
     /\ Cardinality(OutermostObjects(rawText.v)) = 1)
    => LET p == TheObject(rawText.v)
       IN extracted.val = JSONParse(SubSeq(rawText.v, p[1], p[2])).val

\* no script element (an opening tag with a closing tag after it) reaches
\* into positions from..to of s
NoScriptAcross(s, from, to) ==
  \A a \in Positions(s, OpenTag), b \in Positions(s, CloseTag) :
    a < b => (b < from \/ a > to)

\* C8: a text holding exactly one well-formed JSON object yields the parse of
\* that object provided the prose before it has no {, the prose after it has
\* no }, and no <script>...</script> span of the text reaches into it.
C8_ExtractsTheObject ==
  (extracted.stage # "none" /\ TypeofString(rawText)
     /\ Cardinality(OutermostObjects(rawText.v)) = 1)
    => LET s == rawText.v
           p == TheObject(s)
       IN (/\ \A i \in Positions(s, "{") : i >= p[1]
           /\ \A j \in Positions(s, "}") : j <= p[2]
           /\ NoScriptAcross(s, p[1], p[2]))
            => extracted.val = JSONParse(SubSeq(s, p[1], p[2])).val

\* C8 witness: the daily planner between two pieces of prose was extracted.
C8_Witness ==
  /\ extracted.stage # "none"
  /\ rawText = Str(<<"x">> \o JSONStringify(DailyPlanner) \o <<"x">>)
  /\ extracted.val = DailyPlanner
  /\ extracted.val # Fallback
-----------------------------------------------------------------------------
(* The generation handler, POST of generate/route.ts.                      *)

FETCH_TIMEOUT == 30000

MaxInflight == 2    \* activations suspended at an await at one time

models == <<"microsoft/DialoGPT-medium", "gpt2", "distilbert-base-uncased">>

(* validatePrompt of generate/route.ts.  A pattern matches a string when   *)
(* one of the string's lexemes is an instance of it.                       *)
dangerousPatterns ==
  <<{OpenTag, "<ScRipt"}, {"javascript:", "JavaScript:"},
    {"onload=", "ONLOAD ="}, {"eval(", "eval ("},
    {"function(", "Function ("}>>

Test(pattern, s) == \E i \in DOMAIN s : s[i] \in pattern

validatePrompt(prompt) ==
  IF ~Truthy(prompt) \/ ~TypeofString(prompt)
    THEN [isValid |-> FALSE,
          error |-> "Prompt is required and must be a string"]
  ELSE IF StrLen(prompt.v) < 3
    THEN [isValid |-> FALSE,
          error |-> "Prompt must be at least 3 characters long"]
  ELSE IF StrLen(prompt.v) > 1000
    THEN [isValid |-> FALSE,
          error |-> "Prompt must be less than 1000 characters"]
  ELSE IF \E i \in DOMAIN dangerousPatterns :
            Test(dangerousPatterns[i], prompt.v)
    THEN [isValid |-> FALSE,
          error |-> "Invalid characters detected in prompt"]
  ELSE [isValid |-> TRUE, error |-> ""]

getClientIPBadTrustsRealIP(req) ==
  LET first == IF req.forwarded = <<>> THEN "" ELSE Head(req.forwarded)
  IN IF req.realIP # "" THEN req.realIP
     ELSE IF first # "" THEN first
     ELSE "unknown"

(* getClientIP.  A header is the list of its comma-separated values, the   *)
(* empty list when the header is absent; x-real-ip is "" when absent.      *)
getClientIP(req) ==
  LET first == IF req.forwarded = <<>> THEN "" ELSE Head(req.forwarded)
  IN IF first # "" THEN first
     ELSE IF req.realIP # "" THEN req.realIP
     ELSE "unknown"

(* What the handler makes of the payload of a successful upstream reply:   *)
(* the generated text, a provider error, or a TypeError (data.error of     *)
(* null).                                                                  *)
ReadPayload(data) ==
  IF IsArray(data)
       /\ At(data, 1).t \notin {"undefined", "null"}
       /\ Truthy(Get(At(data, 1), "generated_text"))
    THEN [kind |-> "text", text |-> Get(At(data, 1), "generated_text")]
  ELSE IF TypeofString(data)
    THEN [kind |-> "text", text |-> data]
  ELSE IF data.t \in {"undefined", "null"}
    THEN [kind |-> "throw", text |-> Undefined]
  ELSE IF Truthy(Get(data, "error"))
    THEN [kind |-> "error", text |-> Undefined]
  ELSE [kind |-> "text", text |-> Str(JSONStringify(data))]

(* An activation of POST suspended at an await: where it waits (pc), the   *)
(* locals it still holds, and the stages it has run (history).             *)
Activation(ip) ==
  [ip |-> ip, pc |-> "body", prompt |-> Undefined, model |-> "",
   timer |-> 0, status |-> 0, log |-> <<"rate">>]

Waiting(pc) == {a \in BagToSet(inflight) : a.pc = pc}

\* NextResponse.json(...): the activation ends with this response
Send(a, status, ok, error, template, data, log) ==
  /\ response' = [status |-> status, ok |-> ok, error |-> error,
                   template |-> template, prompt |-> a.prompt,
                   upstream |-> a.status, data |-> data, log |-> log]
  /\ stats' = [stats EXCEPT !.pending = @ - 1]

FailBadPassesStatus(a, status, error, data, log) ==
  Send(a, IF a.status = 429 THEN 429 ELSE status, FALSE, error, Undefined,
       data, log)

Fail(a, status, error, data, log) ==
  Send(a, status, FALSE, error, Undefined, data, log)

FinishBadStay(a) == UNCHANGED inflight

\* the activation leaves its await and ends
Finish(a) == inflight' = inflight (-) SetToBag({a})

\* the activation leaves its await and suspends at the next one
Suspend(a, b) == inflight' = (inflight (-) SetToBag({a})) (+) SetToBag({b})

ReceiveBadRefundsRefusal(req, cap) ==
  LET clientIP == getClientIP(req)
      rateLimitCheck == checkRateLimit(clientIP, now)
      noted == NoteCall(clientIP, now, rateLimitCheck.allowed)
  IN /\ BagCardinality(inflight) < cap
     /\ CanCall(clientIP)
     /\ IF ~rateLimitCheck.allowed
          THEN /\ response' =
                    [NoResponse EXCEPT !.status = 429,
                                       !.error = rateLimitCheck.error,
                                       !.log = <<"rate">>]
               /\ rateLimitMap' =
                    SetEntry(rateLimitMap, clientIP,
                             [rateLimitMap[clientIP] EXCEPT !.count = @ - 1])
               /\ window' = [noted EXCEPT ![clientIP].refused = @ + 1]
               /\ UNCHANGED <<inflight, stats>>
          ELSE /\ inflight' = inflight (+) SetToBag({Activation(clientIP)})
               /\ rateLimitMap' = rateLimitCheck.map
               /\ stats' = [stats EXCEPT !.pending = @ + 1]
               /\ window' = noted
               /\ UNCHANGED response
     /\ UNCHANGED <<now, saveRateLimitMap, ret, extractVars, validatorVars, monitorVars, env>>

(* Lines 92-107: client address, rate check, then await req.json().        *)
Receive(req, cap) ==
  LET clientIP == getClientIP(req)
      rateLimitCheck == checkRateLimit(clientIP, now)
      noted == NoteCall(clientIP, now, rateLimitCheck.allowed)
  IN /\ BagCardinality(inflight) < cap
     /\ CanCall(clientIP)
     /\ rateLimitMap' = rateLimitCheck.map
     /\ IF ~rateLimitCheck.allowed
          THEN /\ response' =
                    [NoResponse EXCEPT !.status = 429,
                                       !.error = rateLimitCheck.error,
                                       !.log = <<"rate">>]
               /\ window' = [noted EXCEPT ![clientIP].refused = @ + 1]
               /\ UNCHANGED <<inflight, stats>>
          ELSE /\ inflight' = inflight (+) SetToBag({Activation(clientIP)})
               /\ stats' = [stats EXCEPT !.pending = @ + 1]
               /\ window' = noted
               /\ UNCHANGED response
     /\ UNCHANGED <<now, saveRateLimitMap, ret, extractVars, validatorVars, monitorVars, env>>

(* Lines 107-169: the body arrives (or is no JSON), the prompt is taken    *)
(* from it and validated, the key is read, the request is built and sent,  *)
(* the timer is armed; then await fetch.                                   *)
BodyParsed(a, body) ==
  /\ a \in Waiting("body")
  /\ LET requestBody == body.val
         prompt == Get(requestBody, "prompt")
         validation == validatePrompt(prompt)
         seen == [a EXCEPT !.prompt = prompt]
     IN IF ~body.ok
          THEN /\ Fail(a, 400, "Invalid JSON in request body", Undefined,
                       a.log \o <<"body">>)
               /\ Finish(a)
        ELSE IF requestBody.t \in {"undefined", "null"}
          \* destructuring null throws a TypeError: the outer catch
          THEN /\ Fail(a, 500, "Internal server error", Undefined,
                       a.log \o <<"body">>)
               /\ Finish(a)
        ELSE IF ~validation.isValid
          THEN /\ Fail(seen, 400, validation.error, Undefined,
                       a.log \o <<"body", "validate">>)
               /\ Finish(a)
        ELSE IF ~env.HF_API_KEY
          THEN /\ Fail(seen, 500, "Service temporarily unavailable",
                       Undefined, a.log \o <<"body", "validate", "secret">>)
               /\ Finish(a)
        ELSE /\ Suspend(a, [seen EXCEPT
                              !.pc = "fetch",
                              !.model = models[1],
                              !.timer = now + FETCH_TIMEOUT,
                              !.log = a.log \o <<"body", "validate", "secret",
                                                 "build", "call">>])
             /\ UNCHANGED <<response, stats>>
  /\ UNCHANGED <<limiterVars, extractVars, validatorVars, monitorVars, env>>

(* Lines 160, 223-231: the timer fires first and fetch rejects with an     *)
(* AbortError.                                                             *)
FetchAborted(a) ==
  /\ a \in Waiting("fetch")
  /\ now >= a.timer
  /\ Fail(a, 408, "Request timeout. Please try again.", Undefined, a.log)
  /\ Finish(a)
  /\ UNCHANGED <<limiterVars, extractVars, validatorVars, monitorVars, env>>

FetchFailedBadRetry(a) ==
  /\ a \in Waiting("fetch")
  /\ now <= a.timer
  /\ IF a.model = models[1]
       THEN /\ Suspend(a, [a EXCEPT !.model = models[2],
                                    !.log = a.log \o <<"call">>])
            /\ UNCHANGED <<response, stats>>
       ELSE /\ Fail(a, 500, "Internal server error", Undefined, a.log)
            /\ Finish(a)
  /\ UNCHANGED <<limiterVars, extractVars, validatorVars, monitorVars, env>>

(* Lines 160, 233-236: fetch rejects for any other reason.                 *)
FetchFailed(a) ==
  /\ a \in Waiting("fetch")
  /\ now <= a.timer
  /\ Fail(a, 500, "Internal server error", Undefined, a.log)
  /\ Finish(a)
  /\ UNCHANGED <<limiterVars, extractVars, validatorVars, monitorVars, env>>

(* Lines 160-174, 190: the reply's status line arrives before the timer    *)
(* fires, the timer is cleared; then await response.text() or .json().     *)
FetchResponded(a, status) ==
  /\ a \in Waiting("fetch")
  /\ now <= a.timer
  /\ Suspend(a, [a EXCEPT
                   !.pc = IF status \in 200..299 THEN "json" ELSE "text",
                   !.timer = 0,
                   !.status = status])
  /\ UNCHANGED <<limiterVars, extractVars, validatorVars, monitorVars, env, response, stats>>

(* Lines 177-188: the error reported for a reply whose status is no        *)
(* success.                                                                *)
UpstreamErrorBadAlwaysGeneric(status) ==
  "AI service temporarily unavailable"

UpstreamError(status) ==
  IF status = 429
    THEN "AI service is busy. Please try again in a moment."
    ELSE "AI service temporarily unavailable"

(* Lines 174-188: the error body has been read (or reading it failed); it  *)
(* is written to the console and kept here as history.                     *)
ErrorTextRead(a, body) ==
  /\ a \in Waiting("text")
  /\ LET errorText == body.val
     IN IF ~body.ok
          THEN Fail(a, 500, "Internal server error", Undefined, a.log)
          ELSE Fail(a, 503, UpstreamError(a.status), errorText, a.log)
  /\ Finish(a)
  /\ UNCHANGED <<limiterVars, extractVars, validatorVars, monitorVars, env>>

(* Lines 190-221: the payload has been read as JSON (or was none), the     *)
(* text is taken from it, the template extracted and checked.              *)
JsonRead(a, payload) ==
  /\ a \in Waiting("json")
  /\ LET data == payload.val
         read == ReadPayload(data)
         template == safeJSONParse(read.text)
     IN IF ~payload.ok
          THEN Fail(a, 500, "Internal server error", Undefined, a.log)
        ELSE IF read.kind = "throw"
          THEN Fail(a, 500, "Internal server error", data, a.log)
        ELSE IF read.kind = "error"
          THEN Fail(a, 503, "AI service error. Please try again.", data,
                    a.log)
        ELSE IF ~TemplateAccepted(template)
          THEN Fail(a, 500, "Invalid template generated. Please try again.",
                    data, a.log \o <<"extract", "check">>)
        ELSE Send(a, 200, TRUE, "", template, data,
                  a.log \o <<"extract", "check">>)
  /\ Finish(a)
  /\ UNCHANGED <<limiterVars, extractVars, validatorVars, monitorVars, env>>
-----------------------------------------------------------------------------
(* Spec: the handler under every request, body, upstream outcome and       *)
(* payload of the sets below.                                              *)

\* one client, reached through a proxy chain or through x-real-ip alone
RequestHeaders ==
  {[forwarded |-> <<"203.0.113.7", "10.0.0.1">>, realIP |-> "10.0.0.1"],
   [forwarded |-> <<>>, realIP |-> "203.0.113.7"]}

Prompts ==
  {Undefined, Num(7), Str(<<>>), Str(<<"a", "b">>), Str(<<"a", "b", "c">>),
   Str(<<"a*1001">>),
   Str(<<"a", "b", OpenTag>>)}

Bodies ==
  {[ok |-> FALSE, val |-> Undefined], [ok |-> TRUE, val |-> Null],
   [ok |-> TRUE, val |-> Num(7)]}
    \cup {[ok |-> TRUE, val |-> Obj([prompt |-> p])] :
            p \in Prompts \ {Undefined}}
    \cup {[ok |-> TRUE, val |-> Obj(EmptyMap)]}

Statuses == {200, 401, 429, 503}

ReplyTexts ==
  {JSONStringify(doc) : doc \in Documents \ {EmptySectionName}}
    \cup {<<"x">> \o JSONStringify(Minimal) \o <<"x">>,
          <<"x">>,
          <<"{", OpenTag, CloseTag, "}">>}

ProviderError == Obj([error |-> Str(<<"Model", Blank, "loading">>)])

Datas ==
  {Arr(<<Obj([generated_text |-> Str(text)])>>) : text \in ReplyTexts}
    \cup {Str(JSONStringify(Minimal)), ProviderError,
          Obj([error |-> Str(<<>>)]), Null, Num(7), Arr(<<Null>>),
          DailyPlanner, Arr(<<Obj([generated_text |-> Num(7)])>>)}

\* the body of a reply that is no success: unreadable, or some text
ErrorBodies ==
  {[ok |-> FALSE, val |-> Undefined],
   [ok |-> TRUE, val |-> Str(<<"Model", Blank, "loading">>)]}

Payloads ==
  {[ok |-> FALSE, val |-> Undefined]}
    \cup {[ok |-> TRUE, val |-> data] : data \in Datas}

Init ==
  /\ InitLimiter /\ InitNoMonitor
  /\ InitNoExtract
  /\ InitNoValidator
  /\ env \in {[HF_API_KEY |-> TRUE], [HF_API_KEY |-> FALSE]}
  /\ inflight = EmptyBag
  /\ response = NoResponse
  /\ stats = NoStats

Next ==
  \/ \E req \in RequestHeaders : Receive(req, MaxInflight)
  \/ \E a \in BagToSet(inflight), body \in Bodies : BodyParsed(a, body)
  \/ \E a \in BagToSet(inflight) : FetchAborted(a)
  \/ \E a \in BagToSet(inflight) : FetchFailed(a)
  \/ \E a \in BagToSet(inflight), status \in Statuses :
        FetchResponded(a, status)
  \/ \E a \in BagToSet(inflight), body \in ErrorBodies :
        ErrorTextRead(a, body)
  \/ \E a \in BagToSet(inflight), payload \in Payloads :
        JsonRead(a, payload)
  \/ Tick(HandlerInstants)

Spec == Init /\ [][Next]_vars
-----------------------------------------------------------------------------
(* SpecBurst: testRateLimiting of scripts/test-app.js sends twelve         *)
(* requests at once from one address; each carries a valid prompt.  The    *)
(* upstream call of a request that gets that far fails.                    *)

ConcurrentRequests == 12

BurstHeaders == {[forwarded |-> <<>>, realIP |-> "203.0.113.7"]}

BurstBodies ==
  {[ok |-> TRUE, val |-> Obj([prompt |-> Str(<<"a", "b", "c">>)])]}

NextBurst ==
  \/ \E req \in BurstHeaders : Receive(req, ConcurrentRequests)
  \/ \E a \in BagToSet(inflight), body \in BurstBodies : BodyParsed(a, body)
  \/ \E a \in BagToSet(inflight) : FetchFailed(a)
  \/ Tick(HandlerInstants)

SpecBurst == Init /\ [][NextBurst]_vars
-----------------------------------------------------------------------------
(* Properties of the generation handler *)

\* C2: whatever the interleaving of the activations of one client, at most
\* RATE_LIMIT_MAX_REQUESTS (10) of the requests it made in one window passed
\* the rate check, every other one was answered 429, and once twelve
\* requests were made in one window at least one of them was answered 429.
C2_AtMostTenPass ==
  \A ip \in DOMAIN window :
    /\ window[ip].passed <= 10
    /\ window[ip].refused = window[ip].calls - window[ip].passed
    /\ window[ip].calls >= 12 => window[ip].refused >= 1

\* C2 witness: twelve requests in one window, two answered 429 while the ten
\* others are all still suspended, some before and some after their body
\* was read.
C2_Witness ==
  /\ "203.0.113.7" \in DOMAIN window
  /\ window["203.0.113.7"].calls = 12
  /\ window["203.0.113.7"].refused = 2
  /\ BagCardinality(inflight) = 10
  /\ Waiting("body") # {}
  /\ Waiting("fetch") # {}
  /\ response.status = 429

\* the stages in the order of the handler's text
Stages ==
  <<"rate", "body", "validate", "secret", "build", "call", "extract", "check">>

IsPrefix(s, t) == Len(s) <= Len(t) /\ s = SubSeq(t, 1, Len(s))

Last(s) == s[Len(s)]

\* the stage an error response comes from ("Internal server error" is the
\* answer to an exception: thrown on the body, or by the call and the
\* reading of its reply)
FailedStage(r) ==
  IF r.status = 429 THEN {"rate"}
  ELSE IF r.error = "Invalid JSON in request body" THEN {"body"}
  ELSE IF r.status = 400 THEN {"validate"}
  ELSE IF r.error = "Service temporarily unavailable" THEN {"secret"}
  ELSE IF r.status \in {408, 503} THEN {"call"}
  ELSE IF r.error = "Invalid template generated. Please try again."
    THEN {"check"}
  ELSE {"body", "call"}

\* a prompt the handler lets through, stated on its own
PromptPasses(prompt) ==
  /\ prompt.t = "str"
  /\ StrLen(prompt.v) >= 3
  /\ StrLen(prompt.v) <= 1000
  /\ \A i \in DOMAIN prompt.v :
       prompt.v[i] \notin
         {"<script>", "javascript:", "onload=", "eval(", "function("}

C4_Stages ==
  /\ \A a \in BagToSet(inflight) :
       /\ a.pc \in {"body", "fetch", "text", "json"}
       /\ a.log # <<>> /\ IsPrefix(a.log, Stages)
       /\ a.pc = "body" => a.log = <<"rate">>
       /\ a.pc # "body" =>
            /\ Last(a.log) = "call"
            /\ PromptPasses(a.prompt)
            /\ env.HF_API_KEY
  /\ response.status # 0 =>
       /\ response.log # <<>> /\ IsPrefix(response.log, Stages)
       /\ response.ok => (response.status = 200 /\ response.log = Stages)
       /\ ~response.ok =>
            (response.status # 200
               /\ Last(response.log) \in FailedStage(response))
  /\ stats.pending = BagCardinality(inflight)

C4_Step ==
  LET before == BagCardinality(inflight)
      after  == BagCardinality(inflight')
  IN /\ after \in {before - 1, before, before + 1}
     \* a request goes on past the rate check only if the check allowed it
     /\ after = before + 1 =>
          /\ \E req \in RequestHeaders :
               LET ip == getClientIP(req)
               IN /\ (ip \in DOMAIN rateLimitMap
                        /\ now <= rateLimitMap[ip].resetTime)
                       => rateLimitMap[ip].count < 10
                  /\ rateLimitMap' # rateLimitMap
          /\ UNCHANGED response
     \* an activation ends with a response, and with it only
     /\ after = before - 1 => response'.status # 0
     /\ response' # response =>
          \/ after = before - 1
          \/ after = before /\ response'.status = 429
                            /\ response'.log = <<"rate">>
     \* an activation that suspends again has run the next stages, if any
     /\ after = before =>
          \A b \in BagToSet(inflight') \ BagToSet(inflight) :
            \E a \in BagToSet(inflight) :
              /\ CopiesIn(a, inflight') = CopiesIn(a, inflight) - 1
              /\ IsPrefix(a.log, b.log)
              /\ a.ip = b.ip

C5_Original ==
  response.status = 200 =>
    validateTemplateStructure(response.template).isValid

\* the handler read the payload of a successful reply and took a text from it
HasText ==
  /\ response.upstream \in 200..299
  /\ response.data # Undefined
  /\ ReadPayload(response.data).kind = "text"

GeneratedText == ReadPayload(response.data).text

AnsweredWithFallback ==
  /\ response.status = 200
  /\ response.ok
  /\ response.template.t = "obj"
  /\ response.template.v.title = Str(<<"Template Generation Error">>)
  /\ response.template.v.sections = Arr(<<>>)
  /\ response.template.v.properties = Arr(<<>>)

WellFormedTemplate(text) ==
  /\ TypeofString(text)
  /\ JSONParse(text.v).ok
  /\ LET parsed == JSONParse(text.v).val
     IN /\ parsed.t = "obj"
        /\ Truthy(Get(parsed, "title"))
        /\ validateTemplateStructure(parsed).isValid

AnsweredWith(template) ==
  /\ response.status = 200
  /\ response.ok
  /\ response.template = template

\* C9 as stated: a reply text that is exactly a well-formed template is
\* answered 200 with the parsed object.
C9_Original ==
  (HasText /\ WellFormedTemplate(GeneratedText))
    => AnsweredWith(JSONParse(GeneratedText.v).val)

NoScriptElement(s) ==
  \A i \in Positions(s, OpenTag), j \in Positions(s, CloseTag) : j < i

\* C9: for a valid prompt, an allowed request and the secret present, a
\* reply text that is exactly a well-formed template and holds no
\* <script>...</script> element is answered 200, ok, with the parsed object.
C9_SuccessEndToEnd ==
  (/\ HasText
   /\ WellFormedTemplate(GeneratedText)
   /\ NoScriptElement(GeneratedText.v))
    => /\ AnsweredWith(JSONParse(GeneratedText.v).val)
       /\ PromptPasses(response.prompt)
       /\ env.HF_API_KEY

\* C9 witness: the daily planner came back as the template of a 200.
C9_Witness ==
  /\ response.data =
       Arr(<<Obj([generated_text |-> Str(JSONStringify(DailyPlanner))])>>)
  /\ response.status = 200
  /\ response.ok
  /\ response.template = DailyPlanner

\* the payload is an object that reports an error
ProviderReported(data) ==
  /\ data.t = "obj"
  /\ "error" \in DOMAIN data.v
  /\ data.v.error.t = "str"
  /\ data.v.error.v # <<>>

NonSuccess(status) == status # 0 /\ status \notin 200..299

BusyOrUnavailable ==
  /\ response.status = 503
  /\ ~response.ok
  /\ response.error =
       IF response.upstream = 429
         THEN "AI service is busy. Please try again in a moment."
         ELSE "AI service temporarily unavailable"

-----------------------------------------------------------------------------
(* SpecTimeout: one request at a time with a valid prompt, under the       *)
(* scheduling the host guarantees: the clock advances, a timer that is due *)
(* fires, and the request's own body is delivered.  Nothing obliges the    *)
(* provider to send a status line or to finish a body.                     *)

TimeoutPayloads ==
  {[ok |-> FALSE, val |-> Undefined],
   [ok |-> TRUE,
    val |-> Arr(<<Obj([generated_text |-> Str(JSONStringify(Minimal))])>>)]}

BodyArrives == \E a \in BagToSet(inflight), body \in BurstBodies :
                 BodyParsed(a, body)

TimerFires == \E a \in BagToSet(inflight) : FetchAborted(a)

NextTimeout ==
  \/ \E req \in BurstHeaders : Receive(req, 1)
  \/ BodyArrives
  \/ TimerFires
  \/ \E a \in BagToSet(inflight), status \in Statuses :
        FetchResponded(a, status)
  \/ \E a \in BagToSet(inflight), body \in ErrorBodies :
        ErrorTextRead(a, body)
  \/ \E a \in BagToSet(inflight), payload \in TimeoutPayloads :
        JsonRead(a, payload)
  \/ Tick(HandlerInstants)

SpecTimeout ==
  /\ Init
  /\ [][NextTimeout]_vars
  /\ WF_vars(Tick(HandlerInstants))
  /\ WF_vars(TimerFires)
  /\ WF_vars(BodyArrives)

\* the latest instant the clock of the handler reaches
LastInstant == RATE_LIMIT_WINDOW + 1

\* an upstream call is under way: no status line yet (with a 30 s deadline
\* the clock reaches), or the body of the reply is being read
UpstreamPending ==
  \E a \in BagToSet(inflight) :
    \/ a.pc = "fetch" /\ a.timer <= LastInstant
    \/ a.pc \in {"text", "json"}

\* the 30 s timer does bound the wait for the status line
TimerCoversFetch ==
  (\E a \in BagToSet(inflight) : a.pc = "fetch" /\ a.timer <= LastInstant)
    ~> (Waiting("fetch") = {})

\* C11 as stated: a request whose upstream call is under way is answered in
\* the end, whatever the provider does: the call is cut off by the 30 s timer
\* if it has not completed.
C11_Original == UpstreamPending ~> (inflight = EmptyBag)

\* the response was made because process.env.HF_API_KEY is not set
SecretAbsent == response.status # 0 /\ Last(response.log) = "secret"

\* the response was made to a reply by which the provider rejects the key
SecretRejected ==
  /\ response.status # 0
  /\ response.upstream = 401
  /\ response.error # "Internal server error"

\* what a client is told when the provider rejects the key
RejectedAnswer ==
  [status |-> 503, error |-> "AI service temporarily unavailable"]

Answer == [status |-> response.status, error |-> response.error]

\* the two cases as the handler answers them
SecretAnswers ==
  /\ SecretRejected => Answer = RejectedAnswer
  /\ SecretAbsent =>
       Answer = [status |-> 500, error |-> "Service temporarily unavailable"]

\* C12 as stated: the response to an absent secret has the status and the
\* error message of the response to a secret the provider rejects.
C12_Original == SecretAbsent => Answer = RejectedAnswer
-----------------------------------------------------------------------------
(* The publish handler, POST of save/route.ts.  Its activations wait at    *)
(* "save.body", "save.fetch", "save.text" and "save.json".                 *)

SAVE_FETCH_TIMEOUT == 15000
MAX_CONTENT_LENGTH == 1048576

\* the chain of replace calls of validateContent: script elements, then
\* every instance of the four other patterns
SanitizedContent(contentString) ==
  SelectSeq(StripScripts(contentString),
            LAMBDA x : x \notin {"javascript:", "JavaScript:", "onload=",
                                 "ONLOAD =", "eval(", "eval (", "function(",
                                 "Function ("})

(* validateContent.  JSON.parse skips the white space around the value.    *)
validateContent(content) ==
  IF ~Truthy(content)
    THEN [isValid |-> FALSE, sanitized |-> <<>>,
          error |-> "Content is required"]
  ELSE IF ~TypeofString(content) /\ ~TypeofObject(content)
    THEN [isValid |-> FALSE, sanitized |-> <<>>,
          error |-> "Content must be a string or object"]
  ELSE LET contentString == IF TypeofString(content)
                              THEN content.v ELSE JSONStringify(content)
           trimmed == Trim(contentString)
       IN IF StrLen(contentString) > MAX_CONTENT_LENGTH
            THEN [isValid |-> FALSE, sanitized |-> <<>>,
                  error |-> "Content too large (max 1MB)"]
          ELSE IF /\ trimmed # <<>>
                  /\ Head(trimmed) \in {"{", "["}
                  /\ ~JSONParse(trimmed).ok
            THEN [isValid |-> FALSE, sanitized |-> <<>>,
                  error |-> "Invalid JSON format"]
          ELSE [isValid |-> TRUE,
                sanitized |-> SanitizedContent(contentString),
                error |-> ""]

getSaveClientIP(req) ==
  LET first == IF req.forwarded = <<>> THEN "" ELSE Head(req.forwarded)
  IN IF first # "" THEN first
     ELSE IF req.realIP # "" THEN req.realIP
     ELSE "unknown"

SaveActivation(ip) ==
  [ip |-> ip, pc |-> "save.body", content |-> <<>>, timer |-> 0,
   status |-> 0, log |-> <<"rate">>]

NoSaveResponse ==
  [route |-> "save", status |-> 0, ok |-> FALSE, error |-> "",
   url |-> Undefined, id |-> Undefined, content |-> <<>>, upstream |-> 0,
   data |-> Undefined, log |-> <<>>]

\* NextResponse.json(...) of the publish handler
SaveSend(a, status, ok, error, url, id, data, log) ==
  /\ response' = [route |-> "save", status |-> status, ok |-> ok,
                   error |-> error, url |-> url, id |-> id,
                   content |-> a.content, upstream |-> a.status,
                   data |-> data, log |-> log]
  /\ stats' = [stats EXCEPT !.pending = @ - 1]

SaveFail(a, status, error, data, log) ==
  SaveSend(a, status, FALSE, error, Undefined, Undefined, data, log)

(* Lines 83-97: client address, rate check, then await req.json().         *)
SaveReceive(req, cap) ==
  LET clientIP == getSaveClientIP(req)
      rateLimitCheck == checkSaveRateLimit(clientIP, now)
  IN /\ BagCardinality(inflight) < cap
     /\ saveRateLimitMap' = rateLimitCheck.map
     /\ IF ~rateLimitCheck.allowed
          THEN /\ response' =
                    [NoSaveResponse EXCEPT !.status = 429,
                                           !.error = rateLimitCheck.error,
                                           !.log = <<"rate">>]
               /\ UNCHANGED <<inflight, stats>>
          ELSE /\ inflight' =
                    inflight (+) SetToBag({SaveActivation(clientIP)})
               /\ stats' = [stats EXCEPT !.pending = @ + 1]
               /\ UNCHANGED response
     /\ UNCHANGED <<now, rateLimitMap, window, ret, extractVars, validatorVars, monitorVars, env>>

(* Lines 97-156: the body arrives (or is no JSON), the content is taken    *)
(* from it, validated and sanitized, the token is read, the gist is built  *)
(* and sent, the timer is armed; then await fetch.                         *)
SaveBodyParsed(a, body) ==
  /\ a \in Waiting("save.body")
  /\ LET requestBody == body.val
         content == Get(requestBody, "content")
         validation == validateContent(content)
     IN IF ~body.ok
          THEN /\ SaveFail(a, 400, "Invalid JSON in request body", Undefined,
                           a.log \o <<"body">>)
               /\ Finish(a)
        ELSE IF requestBody.t \in {"undefined", "null"}
          \* destructuring null throws a TypeError: the outer catch
          THEN /\ SaveFail(a, 500, "Internal server error", Undefined,
                           a.log \o <<"body">>)
               /\ Finish(a)
        ELSE IF ~validation.isValid
          THEN /\ SaveFail(a, 400, validation.error, Undefined,
                           a.log \o <<"body", "validate">>)
               /\ Finish(a)
        ELSE IF ~env.GITHUB_TOKEN
          THEN /\ SaveFail(a, 503, "Save service temporarily unavailable",
                           Undefined,
                           a.log \o <<"body", "validate", "secret">>)
               /\ Finish(a)
        ELSE /\ Suspend(a, [a EXCEPT
                              !.pc = "save.fetch",
                              !.content = validation.sanitized,
                              !.timer = now + SAVE_FETCH_TIMEOUT,
                              !.log = a.log \o <<"body", "validate", "secret",
                                                 "build", "call">>])
             /\ UNCHANGED <<response, stats>>
  /\ UNCHANGED <<limiterVars, extractVars, validatorVars, monitorVars, env>>

SaveFetchAbortedBadGeneric(a) ==
  /\ a \in Waiting("save.fetch")
  /\ now >= a.timer
  /\ SaveFail(a, 500, "Internal server error", Undefined, a.log)
  /\ Finish(a)
  /\ UNCHANGED <<limiterVars, extractVars, validatorVars, monitorVars, env>>

(* Lines 144, 200-208: the timer fires first, fetch rejects with an        *)
(* AbortError.                                                             *)
SaveFetchAborted(a) ==
  /\ a \in Waiting("save.fetch")
  /\ now >= a.timer
  /\ SaveFail(a, 408, "Save request timeout. Please try again.", Undefined,
              a.log)
  /\ Finish(a)
  /\ UNCHANGED <<limiterVars, extractVars, validatorVars, monitorVars, env>>

(* Lines 146, 210-213: fetch rejects for any other reason.                 *)
SaveFetchFailed(a) ==
  /\ a \in Waiting("save.fetch")
  /\ now <= a.timer
  /\ SaveFail(a, 500, "Internal server error", Undefined, a.log)
  /\ Finish(a)
  /\ UNCHANGED <<limiterVars, extractVars, validatorVars, monitorVars, env>>

(* Lines 146-161, 184: the reply's status line arrives, the timer is       *)
(* cleared; then await response.text() or response.json().                 *)
SaveFetchResponded(a, status) ==
  /\ a \in Waiting("save.fetch")
  /\ now <= a.timer
  /\ Suspend(a, [a EXCEPT
                   !.pc = IF status \in 200..299 THEN "save.json"
                                                 ELSE "save.text",
                   !.timer = 0,
                   !.status = status])
  /\ UNCHANGED <<limiterVars, extractVars, validatorVars, monitorVars, env, response, stats>>

SaveUpstreamFailureBadForwardsBody(status, errorText) ==
  [status |-> 503, error |-> Head(errorText.v)]

(* Lines 164-181: the answer to a reply whose status is no success; the    *)
(* error text is in scope and goes to the console only.                    *)
SaveUpstreamFailure(status, errorText) ==
  IF status = 401
    THEN [status |-> 401, error |-> "Authentication failed"]
  ELSE IF status = 403
    THEN [status |-> 429, error |-> "Rate limit exceeded for save service"]
  ELSE [status |-> 503, error |-> "Save service temporarily unavailable"]

(* Lines 160-182: the error body has been read (or reading it failed).     *)
SaveErrorTextRead(a, body) ==
  /\ a \in Waiting("save.text")
  /\ LET errorText == body.val
         answer == SaveUpstreamFailure(a.status, errorText)
     IN IF ~body.ok
          THEN SaveFail(a, 500, "Internal server error", Undefined, a.log)
          ELSE SaveFail(a, answer.status, answer.error, errorText, a.log)
  /\ Finish(a)
  /\ UNCHANGED <<limiterVars, extractVars, validatorVars, monitorVars, env>>

(* Lines 184-198: the payload has been read as JSON (or was none) and its  *)
(* html_url is looked up.                                                  *)
SaveJsonRead(a, payload) ==
  /\ a \in Waiting("save.json")
  /\ LET data == payload.val
     IN IF ~payload.ok
          THEN SaveFail(a, 500, "Internal server error", Undefined, a.log)
        ELSE IF data.t \in {"undefined", "null"}
          THEN SaveFail(a, 500, "Internal server error", data, a.log)
        ELSE IF ~Truthy(Get(data, "html_url"))
          THEN SaveFail(a, 500, "Failed to create shareable link", data,
                        a.log \o <<"check">>)
        ELSE SaveSend(a, 200, TRUE, "", Get(data, "html_url"),
                      Get(data, "id"), data, a.log \o <<"check">>)
  /\ Finish(a)
  /\ UNCHANGED <<limiterVars, extractVars, validatorVars, monitorVars, env>>
-----------------------------------------------------------------------------
(* SpecEndpoints: both handlers, one request at a time, within one         *)
(* rate-limit window; the clock reaches the deadline of either timer.      *)

EndpointInstants == {0, FETCH_TIMEOUT}

Environments ==
  {[HF_API_KEY |-> TRUE, GITHUB_TOKEN |-> TRUE],
   [HF_API_KEY |-> FALSE, GITHUB_TOKEN |-> FALSE]}

EndpointBodies ==
  {[ok |-> FALSE, val |-> Undefined],
   [ok |-> TRUE, val |-> Obj([prompt |-> Str(<<"a", "b", "c">>)])],
   [ok |-> TRUE, val |-> Obj([prompt |-> Str(<<"a", "b", OpenTag>>)])]}

\* bodies of replies that are no success; two of them spell a message of
\* the handlers' own
UpstreamErrorTexts ==
  {<<"Model", Blank, "loading">>,
   <<"Bad", Blank, "credentials">>,
   <<"Internal server error">>}

EndpointErrorBodies ==
  {[ok |-> FALSE, val |-> Undefined]}
    \cup {[ok |-> TRUE, val |-> Str(text)] : text \in UpstreamErrorTexts}

EndpointPayloads ==
  {[ok |-> FALSE, val |-> Undefined],
   [ok |-> TRUE, val |-> ProviderError],
   [ok |-> TRUE, val |-> Arr(<<Obj([generated_text |-> Str(<<"x">>)])>>)],
   [ok |-> TRUE,
    val |-> Arr(<<Obj([generated_text |-> Str(JSONStringify(NoTitle))])>>)]}

SaveContents ==
  {Undefined, Num(7), Str(<<"T">>), Str(<<"{">>), Str(<<"a*1048577">>),
   Str(<<"T", OpenTag, "a", CloseTag, "eval(">>), Minimal}

SaveBodies ==
  {[ok |-> FALSE, val |-> Undefined], [ok |-> TRUE, val |-> Null]}
    \cup {[ok |-> TRUE, val |-> Obj([content |-> c])] :
            c \in SaveContents \ {Undefined}}
    \cup {[ok |-> TRUE, val |-> Obj(EmptyMap)]}

SaveStatuses == {201, 401, 403, 500}

Gist ==
  Obj([html_url |-> Str(<<"https://gist.github.com/1">>),
       id |-> Str(<<"1">>)])

SavePayloads ==
  {[ok |-> FALSE, val |-> Undefined],
   [ok |-> TRUE, val |-> Null],
   [ok |-> TRUE, val |-> Obj([id |-> Str(<<"1">>)])],
   [ok |-> TRUE, val |-> Gist]}

InitEndpoints ==
  /\ InitLimiter /\ InitNoMonitor
  /\ InitNoExtract
  /\ InitNoValidator
  /\ env \in Environments
  /\ inflight = EmptyBag
  /\ response = NoResponse
  /\ stats = NoStats

NextEndpoints ==
  \/ \E req \in BurstHeaders : Receive(req, 1)
  \/ \E a \in BagToSet(inflight), body \in EndpointBodies :
        BodyParsed(a, body)
  \/ \E a \in BagToSet(inflight) : FetchAborted(a)
  \/ \E a \in BagToSet(inflight) : FetchFailed(a)
  \/ \E a \in BagToSet(inflight), status \in Statuses :
        FetchResponded(a, status)
  \/ \E a \in BagToSet(inflight), body \in EndpointErrorBodies :
        ErrorTextRead(a, body)
  \/ \E a \in BagToSet(inflight), payload \in EndpointPayloads :
        JsonRead(a, payload)
  \/ \E req \in BurstHeaders : SaveReceive(req, 1)
  \/ \E a \in BagToSet(inflight), body \in SaveBodies :
        SaveBodyParsed(a, body)
  \/ \E a \in BagToSet(inflight) : SaveFetchAborted(a)
  \/ \E a \in BagToSet(inflight) : SaveFetchFailed(a)
  \/ \E a \in BagToSet(inflight), status \in SaveStatuses :
        SaveFetchResponded(a, status)
  \/ \E a \in BagToSet(inflight), body \in EndpointErrorBodies :
        SaveErrorTextRead(a, body)
  \/ \E a \in BagToSet(inflight), payload \in SavePayloads :
        SaveJsonRead(a, payload)
  \/ Tick(EndpointInstants)

SpecEndpoints == InitEndpoints /\ [][NextEndpoints]_vars
-----------------------------------------------------------------------------
(* Properties of the two handlers *)

IsSaveResponse == "route" \in DOMAIN response

\* the number of upstream calls in a history of stages
CallsIn(log) == Cardinality({i \in DOMAIN log : log[i] = "call"})

C13_State ==
  /\ \A a \in BagToSet(inflight) :
       /\ CallsIn(a.log) = IF a.pc \in {"body", "save.body"} THEN 0 ELSE 1
       /\ a.pc \in {"fetch", "text", "json"}
            => a.model = "microsoft/DialoGPT-medium"
  /\ CallsIn(response.log) <= 1

C13_Step ==
  \* a call is sent only by a request whose body has just been read
  /\ \A b \in BagToSet(inflight') :
       (b.pc \in {"fetch", "save.fetch"}
          /\ CopiesIn(b, inflight') > CopiesIn(b, inflight))
         => \E a \in BagToSet(inflight) :
              /\ a.pc = (IF b.pc = "fetch" THEN "body" ELSE "save.body")
              /\ CopiesIn(a, inflight') < CopiesIn(a, inflight)
              /\ a.ip = b.ip
  \* a request whose call is under way goes on to read the reply or ends
  /\ \A a \in BagToSet(inflight) :
       (a.pc \in {"fetch", "text", "json", "save.fetch", "save.text",
                  "save.json"}
          /\ CopiesIn(a, inflight') < CopiesIn(a, inflight))
         => \/ BagCardinality(inflight') = BagCardinality(inflight) - 1
            \/ \E b \in BagToSet(inflight') :
                 /\ CopiesIn(b, inflight') > CopiesIn(b, inflight)
                 /\ b.pc \in {"text", "json", "save.text", "save.json"}
                 /\ b.log = a.log

GenerationMessages ==
  {"Rate limit exceeded. Please try again later.",
   "Invalid JSON in request body",
   "Prompt is required and must be a string",
   "Prompt must be at least 3 characters long",
   "Prompt must be less than 1000 characters",
   "Invalid characters detected in prompt",
   "Service temporarily unavailable",
   "AI service is busy. Please try again in a moment.",
   "AI service temporarily unavailable",
   "AI service error. Please try again.",
   "Invalid template generated. Please try again.",
   "Request timeout. Please try again.",
   "Internal server error"}

PublishMessages ==
  {"Save rate limit exceeded. Please try again later.",
   "Invalid JSON in request body",
   "Content is required",
   "Invalid content format",
   "Content must be a string or object",
   "Content too large (max 1MB)",
   "Invalid JSON format",
   "Save service temporarily unavailable",
   "Authentication failed",
   "Rate limit exceeded for save service",
   "Failed to create shareable link",
   "Save request timeout. Please try again.",
   "Internal server error"}

\* the response answers a reply that was no success and whose body was read
ErrorBodyRead == NonSuccess(response.upstream) /\ response.data # Undefined

\* what the client is told about such a reply, from its status alone
ToldAbout(save, upstream) ==
  IF ~save
    THEN [status |-> 503,
          error |-> IF upstream = 429
                      THEN "AI service is busy. Please try again in a moment."
                      ELSE "AI service temporarily unavailable"]
  ELSE IF upstream = 401
    THEN [status |-> 401, error |-> "Authentication failed"]
  ELSE IF upstream = 403
    THEN [status |-> 429, error |-> "Rate limit exceeded for save service"]
  ELSE [status |-> 503, error |-> "Save service temporarily unavailable"]

\* C14: the error of every response that is no success is one of the
\* messages written in the handler that sent it, a success carries none, and
\* the response to an upstream reply that is no success is fixed by that
\* reply's status alone, whatever the text of its body.
C14_FixedMessages ==
  response.status # 0 =>
    /\ response.ok => response.error = ""
    /\ ~response.ok =>
         response.error \in (IF IsSaveResponse THEN PublishMessages
                                               ELSE GenerationMessages)
    /\ ErrorBodyRead =>
         Answer = ToldAbout(IsSaveResponse, response.upstream)

\* C14 witness: the provider's "Bad credentials" body was read and the
\* client was told "Authentication failed".
C14_Witness ==
  /\ IsSaveResponse
  /\ response.upstream = 401
  /\ response.data = Str(<<"Bad", Blank, "credentials">>)
  /\ response.status = 401
  /\ response.error = "Authentication failed"

\* C15: a response of the generation handler is ok exactly when its status
\* is 200 and then carries a template with a title and no error; every other
\* response is not ok, carries an error string and no template, and has
\* status 400, 408, 429, 500 or 503; status 429 answers only a denial by the
\* handler's own rate check, and status 400 only a body that is no JSON or a
\* prompt that validatePrompt rejects.
C15_ResponseShape ==
  response.status # 0 =>
    /\ response.ok <=> response.status = 200
    /\ response.ok =>
         /\ response.template.t = "obj"
         /\ Truthy(Get(response.template, "title"))
         /\ response.error = ""
    /\ ~response.ok =>
         /\ response.error # ""
         /\ response.template = Undefined
         /\ response.status \in {400, 408, 429, 500, 503}
    /\ response.status = 429 =>
         /\ response.log = <<"rate">>
         /\ response.upstream = 0
         /\ response.error = "Rate limit exceeded. Please try again later."
    /\ response.status = 400 =>
         \/ /\ response.log = <<"rate", "body">>
            /\ response.error = "Invalid JSON in request body"
         \/ /\ response.log = <<"rate", "body", "validate">>
            /\ ~PromptPasses(response.prompt)

\* C15 witness: an upstream 429 was answered 503, after the eleventh request
\* of the window had been answered 429 by the rate check.
C15_Witness ==
  /\ response.upstream = 429
  /\ response.status = 503
  /\ ~response.ok
  /\ \E ip \in DOMAIN window : window[ip].refused >= 1
-----------------------------------------------------------------------------
(* validatePrompt of lib/validation.ts (named libValidatePrompt here: the  *)
(* generation route has a function of the same name).  The lexemes of a    *)
(* prompt are chosen so that no match of a pattern spans two of them, save *)
(* for the white space /import\s+/ wants after the word and for the word   *)
(* boundaries of the spam keywords.                                        *)

Pattern(instances, next, message) ==
  [instances |-> instances, next |-> next, message |-> message]

libDangerousPatterns ==
  <<Pattern({OpenTag, "<ScRipt"}, {}, "Script tags are not allowed"),
    Pattern({"javascript:", "JavaScript:"}, {},
            "JavaScript URLs are not allowed"),
    Pattern({"onload=", "ONLOAD ="}, {}, "Event handlers are not allowed"),
    Pattern({"eval(", "eval ("}, {}, "Eval functions are not allowed"),
    Pattern({"function(", "Function ("}, {},
            "Function definitions are not allowed"),
    Pattern({"import", "IMPORT"}, {Blank},
            "Import statements are not allowed"),
    Pattern({"require("}, {}, "Require statements are not allowed")>>

\* pattern.test(s): an instance, followed by what the pattern wants next
LibTest(pattern, s) ==
  \E i \in DOMAIN s :
    /\ s[i] \in pattern.instances
    /\ pattern.next # {} => (i < Len(s) /\ s[i + 1] \in pattern.next)

\* lexemes whose first, or last, character is a word character
BeginsWord ==
  DOMAIN RunLength \cup
    {"a", "x", "7", "0", "import", "IMPORT", "casino", "Casino", "eval(",
     "eval (", "function(", "Function (", "require(", "javascript:",
     "JavaScript:", "onload=", "ONLOAD ="}
EndsWord ==
  DOMAIN RunLength \cup
    {"a", "x", "7", "0", "import", "IMPORT", "casino", "Casino", "<ScRipt"}

\* /(.)\1{10,}/: the runs of the lexeme table are all of 11 characters or
\* more, and no other lexeme repeats a character
RepeatedCharacters(s) == \E i \in DOMAIN s : s[i] \in DOMAIN RunLength

\* /\b(viagra|casino|poker|lottery)\b/i
SpamKeyword(s) ==
  \E i \in DOMAIN s :
    /\ s[i] \in {"casino", "Casino"}
    /\ i > 1 => s[i - 1] \notin EndsWord
    /\ i < Len(s) => s[i + 1] \notin BeginsWord

RECURSIVE EachDangerousPattern(_, _)
EachDangerousPatternBadFirstOnly(s, i) ==
  LET hits == {k \in DOMAIN libDangerousPatterns :
                 LibTest(libDangerousPatterns[k], s)}
  IN IF hits = {} THEN Nothing
     ELSE Pushed(<<libDangerousPatterns[
                     CHOOSE k \in hits : \A h \in hits : k <= h].message>>,
                 <<>>)

EachDangerousPattern(s, i) ==
  IF i > Len(libDangerousPatterns) THEN Nothing
  ELSE Both(IF LibTest(libDangerousPatterns[i], s)
              THEN Pushed(<<libDangerousPatterns[i].message>>, <<>>)
              ELSE Nothing,
            EachDangerousPattern(s, i + 1))

CheckLengthBadInclusive(trimmedPrompt) ==
  Both(IF StrLen(trimmedPrompt) < 3
         THEN Pushed(<<"Prompt must be at least 3 characters long">>, <<>>)
         ELSE Nothing,
  Both(IF StrLen(trimmedPrompt) >= 1000
         THEN Pushed(<<"Prompt must be less than 1000 characters">>, <<>>)
         ELSE Nothing,
       IF StrLen(trimmedPrompt) > 500
         THEN Pushed(<<>>, <<"Long prompts may take longer to process">>)
         ELSE Nothing))

CheckLength(trimmedPrompt) ==
  Both(IF StrLen(trimmedPrompt) < 3
         THEN Pushed(<<"Prompt must be at least 3 characters long">>, <<>>)
         ELSE Nothing,
  Both(IF StrLen(trimmedPrompt) > 1000
         THEN Pushed(<<"Prompt must be less than 1000 characters">>, <<>>)
         ELSE Nothing,
       IF StrLen(trimmedPrompt) > 500
         THEN Pushed(<<>>, <<"Long prompts may take longer to process">>)
         ELSE Nothing))

CheckSpam(trimmedPrompt) ==
  Both(IF RepeatedCharacters(trimmedPrompt)
         THEN Pushed(<<>>, <<"Repeated characters detected">>)
         ELSE Nothing,
       IF SpamKeyword(trimmedPrompt)
         THEN Pushed(<<>>, <<"Spam-like content detected">>)
         ELSE Nothing)

ResultBadCountsWarnings(pushed) ==
  [isValid  |-> Len(pushed.errors) = 0 /\ Len(pushed.warnings) = 0,
   errors   |-> pushed.errors,
   warnings |-> pushed.warnings]

Result(pushed) ==
  [isValid  |-> Len(pushed.errors) = 0,
   errors   |-> pushed.errors,
   warnings |-> pushed.warnings]

libValidatePrompt(prompt) ==
  IF ~Truthy(prompt) \/ ~TypeofString(prompt)
    THEN [isValid |-> FALSE,
          errors |-> <<"Prompt is required and must be a string">>,
          warnings |-> <<>>]
    ELSE LET trimmedPrompt == Trim(prompt.v)
         IN Result(Both(CheckLength(trimmedPrompt),
                   Both(EachDangerousPattern(trimmedPrompt, 1),
                        CheckSpam(trimmedPrompt))))

(* validateEnvironment.  processEnv is process.env at the call: a variable *)
(* is a string, or undefined when it is not set.                           *)
StartsWith(value, prefix) == value.v # <<>> /\ Head(value.v) = prefix

validateEnvironment(processEnv) ==
  LET key == processEnv.HF_API_KEY
      token == processEnv.GITHUB_TOKEN
      required ==
        IF ~Truthy(key)
          THEN Pushed(<<"Required environment variable HF_API_KEY is not set">>,
                      <<>>)
          ELSE Nothing
      optional ==
        IF ~Truthy(token)
          THEN Pushed(<<>>,
                      <<"Optional environment variable GITHUB_TOKEN is not set">>)
          ELSE Nothing
      keyFormat ==
        IF Truthy(key)
          THEN Both(IF ~StartsWith(key, "hf_")
                      THEN Pushed(<<"HF_API_KEY should start with \"hf_\"">>,
                                  <<>>)
                      ELSE Nothing,
                    IF StrLen(key.v) < 20
                      THEN Pushed(<<>>, <<"HF_API_KEY seems too short">>)
                      ELSE Nothing)
          ELSE Nothing
      tokenFormat ==
        IF Truthy(token) /\ ~StartsWith(token, "ghp_")
                         /\ ~StartsWith(token, "gho_")
          THEN Pushed(<<>>,
                 <<"GITHUB_TOKEN should start with \"ghp_\" or \"gho_\"">>)
          ELSE Nothing
  IN Result(Both(required, Both(optional, Both(keyFormat, tokenFormat))))

(* validateRateLimit.  maxRequests * 0.8 is compared in tenths.            *)
validateRateLimit(ip, requestCount, windowMs, maxRequests) ==
  LET counts == ToString(requestCount) \o "/" \o ToString(maxRequests)
  IN Result(
       Both(IF ip = "" \/ ip = "unknown"
              THEN Pushed(<<>>,
                     <<"Unable to determine client IP for rate limiting">>)
              ELSE Nothing,
            IF requestCount > maxRequests
              THEN Pushed(<<"Rate limit exceeded: " \o counts
                              \o " requests in " \o ToString(windowMs)
                              \o "ms">>, <<>>)
            ELSE IF requestCount * 10 > maxRequests * 8
              THEN Pushed(<<>>, <<"Approaching rate limit: " \o counts
                                    \o " requests">>)
            ELSE Nothing))

(* validateJSON of a string.  The text of a SyntaxError is the engine's;   *)
(* one text stands for it.                                                 *)
SyntaxErrorMessage == "Unexpected token"

validateJSON(jsonString) ==
  LET parsed == JSONParse(jsonString.v)
  IN IF parsed.ok
       THEN Result(IF ~TypeofObject(parsed.val) \/ parsed.val = Null
                     THEN Pushed(<<"JSON must be an object">>, <<>>)
                     ELSE Nothing)
       ELSE [isValid |-> FALSE,
             errors |-> <<"Invalid JSON: " \o SyntaxErrorMessage>>,
             warnings |-> <<>>]

-----------------------------------------------------------------------------
(* SpecValidators: the validators of lib/validation.ts, each called on one *)
(* input, up to MaxRuns times in a row.                                    *)

MaxPromptLen == 4   \* lexemes of a prompt
MaxItems == 2       \* elements of sections and of properties
MaxRuns == 2        \* calls of a validator on its input

PromptAlphabet ==
  {"a", Blank, "a*998", "<ScRipt", "import", "casino", "eval ("}

LibPrompts ==
  {Undefined, Null, Num(0), Num(7)}
    \cup {Str(s) : s \in SeqsUpTo(PromptAlphabet, MaxPromptLen)}

Titles == {Str(<<"T">>), Str(<<Blank>>), Str(<<"a*201", Blank>>), Undefined}

SectionItems ==
  {Section(<<"Today">>, <<"Tasks">>),
   Section(<<Blank>>, <<"a*501">>),
   Null}

PropertyItems ==
  {Property(<<"Status">>, <<"status">>, <<"Task">>),
   Property(<<"Status">>, <<"invalid-kind">>, <<"a*301">>),
   Obj([type |-> Num(7), description |-> Str(<<>>)])}

NotesOf == {Undefined, Str(<<"a*1001">>), Num(7)}

WithNotes(template, notes) ==
  IF notes = Undefined THEN template
  ELSE Obj([k \in DOMAIN template.v \cup {"notes"} |->
              IF k = "notes" THEN notes ELSE template.v[k]])

Repeated(item, n) == [i \in 1..n |-> item]

LibTemplates ==
  {Undefined, Null, Num(7), Str(<<"T">>), Arr(<<>>)}
    \cup {WithNotes(Obj([title |-> title, sections |-> sections,
                         properties |-> properties]), notes) :
            title \in Titles,
            sections \in {Undefined}
                           \cup {Arr(a) : a \in SeqsUpTo(SectionItems,
                                                         MaxItems)},
            properties \in {Str(<<"x">>)}
                           \cup {Arr(a) : a \in SeqsUpTo(PropertyItems,
                                                         MaxItems)},
            notes \in NotesOf}
    \cup {Template(<<"T">>,
                   Repeated(Section(<<"Today">>, <<"Tasks">>), 21), <<>>)}

ProcessEnvs ==
  [HF_API_KEY :
     {Undefined, Str(<<>>), Str(<<"hf_", "a*201">>), Str(<<"hf_", "x">>),
      Str(<<"x", "a*201">>), Str(<<"x">>)},
   GITHUB_TOKEN :
     {Undefined, Str(<<"ghp_", "x">>), Str(<<"gho_", "x">>), Str(<<"x">>)}]

RateLimitCalls ==
  [ip : {"", "unknown", "203.0.113.7"},
   requestCount : 0..MaxCallsPerWindow,
   windowMs : {RATE_LIMIT_WINDOW},
   maxRequests : {RATE_LIMIT_MAX_REQUESTS, SAVE_RATE_LIMIT_MAX_REQUESTS}]

JsonStrings ==
  {text \in RawTexts : TypeofString(text)}
    \cup {Str(<<"null">>), Str(<<"[", "]">>), Str(<<Quote, "x", Quote>>)}

Validators ==
  {"validatePrompt", "validateTemplateStructure", "validateEnvironment",
   "validateRateLimit", "validateJSON"}

InputsOf(fn) ==
  CASE fn = "validatePrompt"            -> LibPrompts
    [] fn = "validateTemplateStructure" -> LibTemplates
    [] fn = "validateEnvironment"       -> ProcessEnvs
    [] fn = "validateRateLimit"         -> RateLimitCalls
    [] OTHER                            -> JsonStrings

InitValidators ==
  /\ \E fn \in Validators :
       \E arg \in InputsOf(fn) : subject = [fn |-> fn, arg |-> arg]
  /\ verdicts = <<>>
  /\ InitLimiter /\ InitNoMonitor
  /\ InitNoExtract
  /\ InitNoHandler

\* a call returned result: it joins the results returned so far
Returned(result) ==
  /\ Len(verdicts) < MaxRuns
  /\ verdicts' = Append(verdicts, result)
  /\ UNCHANGED <<limiterVars, extractVars, handlerVars, monitorVars>>

\* the template after validateTemplateStructure: the function reads its
\* members and assigns to none of them
TemplateAfterBadTrimsTitle(template) ==
  IF TypeofString(Get(template, "title"))
    THEN Obj([template.v EXCEPT !["title"] = Str(Trim(@.v))])
    ELSE template

TemplateAfter(template) == template

ValidatePrompt ==
  /\ subject.fn = "validatePrompt"
  /\ Returned(libValidatePrompt(subject.arg))
  /\ UNCHANGED subject

ValidateTemplate ==
  /\ subject.fn = "validateTemplateStructure"
  /\ Returned(validateTemplateStructure(subject.arg))
  /\ subject' = [subject EXCEPT !.arg = TemplateAfter(subject.arg)]

ValidateEnvironment ==
  /\ subject.fn = "validateEnvironment"
  /\ Returned(validateEnvironment(subject.arg))
  /\ UNCHANGED subject

ValidateRateLimit ==
  /\ subject.fn = "validateRateLimit"
  /\ Returned(validateRateLimit(subject.arg.ip, subject.arg.requestCount,
                                subject.arg.windowMs,
                                subject.arg.maxRequests))
  /\ UNCHANGED subject

ValidateJSON ==
  /\ subject.fn = "validateJSON"
  /\ Returned(validateJSON(subject.arg))
  /\ UNCHANGED subject

NextValidators ==
  \/ ValidatePrompt
  \/ ValidateTemplate
  \/ ValidateEnvironment
  \/ ValidateRateLimit
  \/ ValidateJSON

SpecValidators == InitValidators /\ [][NextValidators]_vars

-----------------------------------------------------------------------------
(* Properties of the validators *)

Validated(fn) == subject.fn = fn /\ verdicts # <<>>

Count(list, x) == Cardinality({i \in DOMAIN list : list[i] = x})
Reported(verdict, message) == Count(verdict.errors, message) >= 1

TooShort == "Prompt must be at least 3 characters long"
TooLong == "Prompt must be less than 1000 characters"
NotAString == "Prompt is required and must be a string"

\* the k-th dangerous pattern has a match in the text s
MatchAt(k, s, i) ==
  /\ s[i] \in libDangerousPatterns[k].instances
  /\ \/ libDangerousPatterns[k].next = {}
     \/ i + 1 \in DOMAIN s /\ s[i + 1] \in libDangerousPatterns[k].next
Matches(k, s) == \E i \in 1..Len(s) : MatchAt(k, s, i)
Harmless(s) == \A k \in DOMAIN libDangerousPatterns : ~Matches(k, s)

PromptString == Validated("validatePrompt") /\ TypeofString(subject.arg)

(* C16 as stated: every prompt string of length 0 to 2 and every one of    *)
(* length 1001 or more is rejected with a length error, and one of length  *)
(* 3 or 1000 that matches no dangerous pattern is accepted.                *)
C16_Original ==
  PromptString =>
    LET length == StrLen(subject.arg.v)
    IN \A i \in DOMAIN verdicts :
         /\ length <= 2 =>
              ~verdicts[i].isValid /\ Reported(verdicts[i], TooShort)
         /\ length >= 1001 =>
              ~verdicts[i].isValid /\ Reported(verdicts[i], TooLong)
         /\ length \in {3, 1000} /\ Harmless(subject.arg.v) =>
              verdicts[i].isValid

(* C16, amended: the length that counts is the one of the trimmed prompt.  *)
(* The empty string is rejected as a missing prompt, with no length error; *)
(* every other prompt string is rejected with the length error for short   *)
(* prompts exactly when its trimmed length is 0 to 2, with the one for     *)
(* long prompts exactly when its trimmed length is 1001 or more, and is    *)
(* accepted when its trimmed length is 3 to 1000 (3 and 1000 included) and *)
(* the trimmed prompt matches no dangerous pattern.                        *)
C16_LengthBounds ==
  PromptString =>
    LET trimmed == Trim(subject.arg.v)
        length == StrLen(trimmed)
    IN \A i \in DOMAIN verdicts :
         IF subject.arg.v = <<>>
           THEN verdicts[i] = [isValid |-> FALSE, errors |-> <<NotAString>>,
                               warnings |-> <<>>]
           ELSE /\ Reported(verdicts[i], TooShort) <=> length <= 2
                /\ Reported(verdicts[i], TooLong) <=> length >= 1001
                /\ length <= 2 \/ length >= 1001 => ~verdicts[i].isValid
                /\ length \in 3..1000 /\ Harmless(trimmed) =>
                     verdicts[i].isValid /\ verdicts[i].errors = <<>>

\* a prompt of 1001 characters, 1000 once trimmed, was accepted
C16_Witness ==
  /\ PromptString
  /\ StrLen(subject.arg.v) = 1001
  /\ StrLen(Trim(subject.arg.v)) = 1000
  /\ verdicts[1].isValid


MessageOf(k) == libDangerousPatterns[k].message

(* C17 as stated: a prompt that matches a dangerous pattern is rejected,   *)
(* and whatever its length it gets exactly one error for each pattern it   *)
(* matches and none for the others.                                        *)
C17_Original ==
  PromptString =>
    \A i \in DOMAIN verdicts :
      /\ ~Harmless(subject.arg.v) => ~verdicts[i].isValid
      /\ \A k \in DOMAIN libDangerousPatterns :
           Count(verdicts[i].errors, MessageOf(k))
             = IF Matches(k, subject.arg.v) THEN 1 ELSE 0

(* C17, amended: the patterns are tested on the trimmed prompt.  A prompt  *)
(* string whose trimmed text matches a dangerous pattern is rejected, and  *)
(* whatever its length and the other patterns it gets exactly one error    *)
(* for each pattern its trimmed text matches and none for the others; a    *)
(* match that needs the white space at the end of the prompt is no match.  *)
C17_EveryPattern ==
  PromptString =>
    LET trimmed == Trim(subject.arg.v)
    IN \A i \in DOMAIN verdicts :
         /\ ~Harmless(trimmed) => ~verdicts[i].isValid
         /\ \A k \in DOMAIN libDangerousPatterns :
              Count(verdicts[i].errors, MessageOf(k))
                = IF Matches(k, trimmed) THEN 1 ELSE 0

\* a prompt too long, with a script tag in mixed case and a call of eval,
\* got the three errors
C17_Witness ==
  /\ PromptString
  /\ verdicts[1].errors = <<TooLong, "Script tags are not allowed",
                            "Eval functions are not allowed">>


(* C18: every result returned by validatePrompt, validateTemplateStructure, *)
(* validateEnvironment, validateRateLimit and validateJSON has isValid     *)
(* true exactly when its errors list is empty, whatever its warnings.      *)
C18_ValidIffNoErrors ==
  \A i \in DOMAIN verdicts :
    /\ verdicts[i].isValid <=> verdicts[i].errors = <<>>
    /\ verdicts[i].errors = <<>> /\ verdicts[i].warnings # <<>> =>
         verdicts[i].isValid

\* an environment with the required key and without the optional token
\* was found valid, with the warning
C18_Witness ==
  /\ Validated("validateEnvironment")
  /\ verdicts[1].isValid
  /\ "Optional environment variable GITHUB_TOKEN is not set"
       \in {verdicts[1].warnings[j] : j \in DOMAIN verdicts[1].warnings}


\* What a template is to be told, as a set: the violations of each member
\* and of each element, the element at 0-based index j under position j + 1.
Missing(value) == ~Truthy(value) \/ ~TypeofString(value)
BlankOnly(value) == \A c \in DOMAIN value.v : value.v[c] = Blank

Position(kind, j) == kind \o " " \o ToString(j + 1)

MemberViolations(item, label, member) ==
  IF Missing(Get(item, member))
    THEN {label \o ": " \o member \o " is required and must be a string"}
  ELSE IF BlankOnly(Get(item, member))
    THEN {label \o ": " \o member \o " cannot be empty"}
  ELSE {}

TypeViolations(item, label) ==
  IF Missing(Get(item, "type"))
    THEN {label \o ": type is required and must be a string"}
  ELSE IF \A n \in DOMAIN validPropertyTypes :
            <<validPropertyTypes[n]>> # Get(item, "type").v
    THEN {label \o ": type must be one of: " \o JoinComma(validPropertyTypes)}
  ELSE {}

ElementViolations(kind, item, j) ==
  LET label == Position(kind, j)
  IN IF ~Truthy(item) \/ ~TypeofObject(item)
       THEN {label \o " must be an object"}
       ELSE MemberViolations(item, label, "name")
              \cup MemberViolations(item, label, "description")
              \cup (IF kind = "Property" THEN TypeViolations(item, label)
                    ELSE {})

SequenceViolations(kind, value, what) ==
  IF ~IsArray(value) THEN {what \o " must be an array"}
  ELSE UNION {ElementViolations(kind, value.v[j + 1], j) :
                j \in 0..(Len(value.v) - 1)}

Violations(template) ==
  (IF Missing(Get(template, "title"))
     THEN {"Title is required and must be a string"}
   ELSE IF BlankOnly(Get(template, "title")) THEN {"Title cannot be empty"}
   ELSE {})
  \cup SequenceViolations("Section", Get(template, "sections"), "Sections")
  \cup SequenceViolations("Property", Get(template, "properties"),
                          "Properties")
  \cup (IF Get(template, "notes") # Undefined
           /\ ~TypeofString(Get(template, "notes"))
          THEN {"Notes must be a string if provided"} ELSE {})

ObjectGiven ==
  /\ Validated("validateTemplateStructure")
  /\ Truthy(subject.arg) /\ TypeofObject(subject.arg)

(* C19: one call of validateTemplateStructure on an object reports every   *)
(* violation of title, of each element of sections, of each element of     *)
(* properties and of notes, each once, and the ones of the element at      *)
(* 0-based index i under position i + 1.                                   *)
C19_EveryViolation ==
  ObjectGiven =>
    \A i \in DOMAIN verdicts :
      /\ {verdicts[i].errors[j] : j \in DOMAIN verdicts[i].errors}
           = Violations(subject.arg)
      /\ Len(verdicts[i].errors) = Cardinality(Violations(subject.arg))

\* a template wrong in its title, its second section, the three members of
\* its second property and its notes was told all six
C19_Witness ==
  /\ ObjectGiven
  /\ verdicts[1].errors = <<"Title is required and must be a string",
                            "Section 2 must be an object",
                            "Property 2: name is required and must be a string",
                            "Property 2: type is required and must be a string",
                            "Property 2: description is required and must be a string",
                            "Notes must be a string if provided">>


TemplateValidated == Validated("validateTemplateStructure")

\* every later result on the same template equals the first; after a first
\* result found valid each is valid, without errors, with its warnings
C20_State ==
  TemplateValidated =>
    \A i \in DOMAIN verdicts :
      /\ verdicts[i] = verdicts[1]
      /\ verdicts[1].isValid =>
           /\ verdicts[i].isValid
           /\ verdicts[i].errors = <<>>
           /\ verdicts[i].warnings = verdicts[1].warnings

\* a call of the validator leaves the template as it was
C20_Step ==
  subject.fn = "validateTemplateStructure" /\ verdicts' # verdicts =>
    /\ subject' = subject
    /\ Len(verdicts') = Len(verdicts) + 1
    /\ SubSeq(verdicts', 1, Len(verdicts)) = verdicts

-----------------------------------------------------------------------------
(* Properties of the publish handler *)

PublishAnswered == IsSaveResponse /\ response.status # 0

\* the publish request found no GITHUB_TOKEN: 503, and no call was sent
NoTokenNoCall ==
  PublishAnswered /\ Last(response.log) = "secret" =>
    /\ response.status = 503
    /\ CallsIn(response.log) = 0
    /\ response.upstream = 0

\* a publish call still waiting for the status line after its deadline
\* ends with 408
TimerAnswers408 ==
  \A a \in BagToSet(inflight) :
    (a.pc = "save.fetch" /\ now > a.timer /\ inflight' # inflight) =>
      /\ inflight' = EmptyBag
      /\ response'.status = 408
      /\ response'.error = "Save request timeout. Please try again."

-----------------------------------------------------------------------------
(* sanitizeContent of lib/validation.ts.  Here a match of a pattern may be *)
(* spelled by one lexeme or by two fragments side by side ("java" and      *)
(* "script:"), so that text around a removed match can close up.           *)

Spelled(spellings, trailing) ==
  [spellings |-> spellings, trailing |-> trailing]

\* the patterns of the replace calls after the script one, in their order;
\* /import\s+/ takes the white space that follows, and wants some
sanitizePatterns ==
  <<Spelled({<<"javascript:">>, <<"JavaScript:">>, <<"java", "script:">>},
            {}),
    Spelled({<<"onload=">>, <<"ONLOAD =">>}, {}),
    Spelled({<<"eval(">>, <<"eval (">>, <<"ev", "al(">>}, {}),
    Spelled({<<"function(">>, <<"Function (">>}, {}),
    Spelled({<<"import">>, <<"IMPORT">>}, {Blank}),
    Spelled({<<"require(">>}, {})>>

Begins(s, w) == Len(w) <= Len(s) /\ SubSeq(s, 1, Len(w)) = w

RECURSIVE SkipAll(_, _)
SkipAll(s, lexemes) ==
  IF s # <<>> /\ Head(s) \in lexemes THEN SkipAll(Tail(s), lexemes) ELSE s

\* the end of the match of pattern that begins s: 0 when there is none
MatchEnd(pattern, s) ==
  LET hits == {w \in pattern.spellings : Begins(s, w)}
      word == Len(CHOOSE w \in hits : TRUE)
  IN IF hits = {} THEN 0
     ELSE IF pattern.trailing = {} THEN word
     ELSE IF word < Len(s) /\ s[word + 1] \in pattern.trailing
       THEN Len(s) - Len(SkipAll(SubSeq(s, word + 1, Len(s)),
                                 pattern.trailing))
     ELSE 0

\* s.replace(pattern, '') with the g flag: one pass from left to right
RECURSIVE ReplaceAll(_, _)
ReplaceAll(pattern, s) ==
  IF s = <<>> THEN <<>>
  ELSE LET end == MatchEnd(pattern, s)
       IN IF end = 0 THEN <<Head(s)>> \o ReplaceAll(pattern, Tail(s))
          ELSE ReplaceAll(pattern, SubSeq(s, end + 1, Len(s)))

RECURSIVE ReplaceEach(_, _)
ReplaceEach(s, i) ==
  IF i > Len(sanitizePatterns) THEN s
  ELSE ReplaceEach(ReplaceAll(sanitizePatterns[i], s), i + 1)

sanitizeContent(content) == Trim(ReplaceEach(StripScripts(content), 1))

-----------------------------------------------------------------------------
(* SpecSanitize: validateContent of the publish route on one content, and  *)
(* sanitizeContent on one text and then on its own output.                 *)

ContentAlphabet ==
  {"x", Blank, OpenTag, CloseTag, "JavaScript:", "eval (", "import",
   "require("}

Contents ==
  {Str(s) : s \in SeqsUpTo(ContentAlphabet, MaxTextLen)} \cup {Minimal}

SanitizeAlphabet ==
  {"x", Blank, "java", "script:", "javascript:", "ev", "al(", "eval(",
   "import"}

SanitizeTexts == SeqsUpTo(SanitizeAlphabet, MaxTextLen)

InitSanitize ==
  /\ \/ \E content \in Contents :
          subject = [fn |-> "validateContent", arg |-> content]
     \/ \E content \in SanitizeTexts :
          subject = [fn |-> "sanitizeContent", arg |-> content]
  /\ verdicts = <<>>
  /\ InitLimiter /\ InitNoMonitor
  /\ InitNoExtract
  /\ InitNoHandler

ValidateContent ==
  /\ subject.fn = "validateContent"
  /\ verdicts = <<>>
  /\ verdicts' = <<validateContent(subject.arg)>>
  /\ UNCHANGED <<subject, limiterVars, extractVars, handlerVars, monitorVars>>

\* sanitizeContent(s), then sanitizeContent of what it returned
SanitizeContent ==
  /\ subject.fn = "sanitizeContent"
  /\ Len(verdicts) < MaxRuns
  /\ verdicts' =
       Append(verdicts,
              sanitizeContent(IF verdicts = <<>> THEN subject.arg
                              ELSE verdicts[Len(verdicts)]))
  /\ UNCHANGED <<subject, limiterVars, extractVars, handlerVars, monitorVars>>

NextSanitize == ValidateContent \/ SanitizeContent

SpecSanitize == InitSanitize /\ [][NextSanitize]_vars
-----------------------------------------------------------------------------
(* Properties of the sanitizers *)

\* the content the publish handler forwards: validation.sanitized
Forwarded == verdicts[1].sanitized

ContentPassed == Validated("validateContent") /\ verdicts[1].isValid

(* C22 as stated: the content forwarded to the paste host holds no match   *)
(* of any of the dangerous patterns for which the Input Validator rejects  *)
(* a prompt.                                                               *)
C22_Original ==
  ContentPassed =>
    \A k \in DOMAIN libDangerousPatterns : ~Matches(k, Trim(Forwarded))

\* what the publish route does take out: javascript:, on<word>=, eval( and
\* function( in any letter case, and script elements that are closed
RouteDenylist ==
  ContentPassed =>
    /\ \A k \in 2..5 : ~Matches(k, Forwarded)
    /\ \A i \in DOMAIN Forwarded :
         Forwarded[i] = OpenTag =>
           \A j \in (i + 1)..Len(Forwarded) : Forwarded[j] # CloseTag

\* a text holds a match of one of the patterns sanitizeContent removes
HoldsMatch(text) ==
  \E k \in DOMAIN sanitizePatterns, i \in DOMAIN text :
    MatchEnd(sanitizePatterns[k], SubSeq(text, i, Len(text))) > 0

(* C29 as stated: sanitizeContent applied to its own output returns it     *)
(* unchanged, and its output holds no match of a pattern it removes.       *)
C29_Original ==
  Validated("sanitizeContent") =>
    \A i \in DOMAIN verdicts :
      /\ ~HoldsMatch(verdicts[i])
      /\ verdicts[i] = verdicts[1]
-----------------------------------------------------------------------------
(* Properties of the limiters' maps *)

\* the entry of ip is inside its window at time t
Live(map, ip, t) == ip \in DOMAIN map /\ t <= map[ip].resetTime

\* what one call for ip, answered with allowed, may do to a map
Framed(old, new, ip, allowed, t, maxRequests) ==
  /\ allowed <=> ~(Live(old, ip, t) /\ old[ip].count >= maxRequests)
  /\ ~allowed => new = old
  /\ allowed /\ Live(old, ip, t) =>
       new[ip] = [count |-> old[ip].count + 1,
                  resetTime |-> old[ip].resetTime]
  /\ DOMAIN new = DOMAIN old \cup {ip}
  /\ \A other \in DOMAIN old \ {ip} : new[other] = old[other]

\* C26: a denied call of checkRateLimit or checkSaveRateLimit leaves the
\* whole map as it was; an allowed call inside a live window adds 1 to the
\* caller's count and leaves its resetTime alone; no call changes another
\* client's entry, and the verdict is decided by the caller's entry alone.
C26_OnlyOwnEntry ==
  [][/\ \A ip \in ClientIPs :
          Called(ip) =>
            /\ ret'.fn = "checkRateLimit" /\ ret'.ip = ip
            /\ Framed(rateLimitMap, rateLimitMap', ip, ret'.allowed, now,
                      RATE_LIMIT_MAX_REQUESTS)
     /\ SaveCalled =>
          Framed(saveRateLimitMap, saveRateLimitMap', ret'.ip, ret'.allowed,
                 now, SAVE_RATE_LIMIT_MAX_REQUESTS)]_vars

\* C26 witness: a client has just been denied a publish call at its full
\* quota while the other client holds entries, below their maxima, in both
\* maps.
C26_Witness ==
  \E ip \in ClientIPs : \E other \in ClientIPs \ {ip} :
    /\ ret = [fn |-> "checkSaveRateLimit", ip |-> ip, allowed |-> FALSE,
              error |-> "Save rate limit exceeded. Please try again later."]
    /\ saveRateLimitMap[ip].count = SAVE_RATE_LIMIT_MAX_REQUESTS
    /\ other \in DOMAIN saveRateLimitMap
    /\ saveRateLimitMap[other].count = 2
    /\ other \in DOMAIN rateLimitMap
    /\ rateLimitMap[other].count = RATE_LIMIT_MAX_REQUESTS - 1
    /\ ip \in DOMAIN rateLimitMap
    /\ rateLimitMap[ip].count = RATE_LIMIT_MAX_REQUESTS

\* C27: the first call a client makes at a time strictly greater than its
\* resetTime is allowed and opens a window at count 1, whatever was denied
\* before it; a call made at a time equal to resetTime is judged against
\* the old window: denied at a full count, counted into it otherwise.
C27_NoLockout ==
  [][\A ip \in ClientIPs :
       Called(ip) /\ ip \in DOMAIN rateLimitMap =>
         LET entry == rateLimitMap[ip]
         IN /\ now > entry.resetTime =>
                 /\ ret'.allowed
                 /\ rateLimitMap'[ip] =
                      [count |-> 1, resetTime |-> now + RATE_LIMIT_WINDOW]
            /\ now = entry.resetTime =>
                 /\ ret'.allowed <=> entry.count < RATE_LIMIT_MAX_REQUESTS
                 /\ rateLimitMap'[ip].resetTime = entry.resetTime]_vars

\* C27 witness: a client is denied at the very instant of its resetTime.
C27_Witness ==
  \E ip \in ClientIPs :
    /\ ret = [fn |-> "checkRateLimit", ip |-> ip, allowed |-> FALSE,
              error |-> "Rate limit exceeded. Please try again later."]
    /\ now = rateLimitMap[ip].resetTime
    /\ rateLimitMap[ip].count = RATE_LIMIT_MAX_REQUESTS
-----------------------------------------------------------------------------
(* SpecClients: requests with every shape of the two address headers reach *)
(* the generation handler, one after another; each carries a valid prompt  *)
(* and its upstream call fails.                                            *)

\* x-forwarded-for absent (<<>>), present and empty (<<"">>), or beginning
\* with an empty value; x-real-ip absent ("")
ClientHeaders ==
  RequestHeaders
    \cup {[forwarded |-> <<>>, realIP |-> ""],
          [forwarded |-> <<"">>, realIP |-> ""],
          [forwarded |-> <<"", "10.0.0.1">>, realIP |-> "203.0.113.7"]}

\* POST(req): a request with these headers is handed to the handler
Deliver(req) ==
  /\ subject # [fn |-> "POST", arg |-> req]
  /\ subject' = [fn |-> "POST", arg |-> req]
  /\ UNCHANGED <<limiterVars, extractVars, handlerVars, verdicts, monitorVars>>

Delivered == subject.fn = "POST"

NextClients ==
  \/ \E req \in ClientHeaders : Deliver(req)
  \/ Delivered /\ Receive(subject.arg, 1)
  \/ \E a \in BagToSet(inflight), body \in BurstBodies : BodyParsed(a, body)
  \/ \E a \in BagToSet(inflight) : FetchFailed(a)
  \/ Tick(HandlerInstants)

SpecClients == InitLimiters /\ [][NextClients]_vars
-----------------------------------------------------------------------------
(* Properties of the rate-limit key *)

\* the key as the claim words it
RateLimitKey(req) ==
  IF req.forwarded # <<>> /\ req.forwarded[1] # "" THEN req.forwarded[1]
  ELSE IF req.realIP # "" THEN req.realIP
  ELSE "unknown"

HeaderLess(req) == req.forwarded = <<>> /\ req.realIP = ""

\* C28: the entry a generation request is counted in is that of the first
\* value of x-forwarded-for if it is not empty, else of x-real-ip, else of
\* "unknown" (the publish handler derives the same key); a request with
\* neither header is counted in "unknown", and one that finds this entry at
\* 10 inside its window is answered 429 and goes no further.
C28_SharedUnknownKey ==
  /\ [](Delivered =>
          getSaveClientIP(subject.arg) = RateLimitKey(subject.arg))
  /\ [][\A key \in DOMAIN window' :
          Called(key) =>
            /\ Delivered
            /\ key = RateLimitKey(subject.arg)
            /\ HeaderLess(subject.arg) => key = "unknown"
            /\ (Live(rateLimitMap, key, now)
                  /\ rateLimitMap[key].count >= RATE_LIMIT_MAX_REQUESTS)
                 => /\ response'.status = 429
                    /\ inflight' = inflight
                    /\ rateLimitMap' = rateLimitMap]_vars

\* C28 witness: a request without either header is answered 429 as the
\* eleventh request counted in "unknown", while the client that sends its
\* address has used two of its own ten.
C28_Witness ==
  /\ Delivered /\ HeaderLess(subject.arg)
  /\ response.status = 429
  /\ "unknown" \in DOMAIN window
  /\ window["unknown"].calls = RATE_LIMIT_MAX_REQUESTS + 1
  /\ window["unknown"].refused = 1
  /\ "203.0.113.7" \in DOMAIN rateLimitMap
  /\ rateLimitMap["203.0.113.7"].count = 2
-----------------------------------------------------------------------------
(* MonitoringService of lib/prompt.ts.  A metric carries the fields the    *)
(* service reads, statusCode and duration, and its requestId.              *)

MAX_METRICS == 1000

\* this.metrics.slice(-MAX_METRICS)
LastMetrics(list) ==
  IF Len(list) > MAX_METRICS
    THEN SubSeq(list, Len(list) - MAX_METRICS + 1, Len(list))
    ELSE list

\* this.metrics.reduce((sum, m) => sum + m.duration, 0): every duration
\* times the number of metrics that have it
RECURSIVE SumOf(_, _)
SumOf(list, durations) ==
  IF durations = {} THEN 0
  ELSE LET duration == CHOOSE x \in durations : TRUE
       IN duration * Cardinality({i \in DOMAIN list :
                                    list[i].duration = duration})
            + SumOf(list, durations \ {duration})

TotalTime(list) == SumOf(list, {list[i].duration : i \in DOMAIN list})

\* lines 194-205; averageResponseTime is the quotient total / count
updateUsageStatsBadSkipsRedirects(stats0, list, metric) ==
  LET success == metric.statusCode >= 200 /\ metric.statusCode < 300
      failure == metric.statusCode >= 400
  IN [totalRequests       |-> stats0.totalRequests + 1,
      successfulRequests  |-> stats0.successfulRequests
                                + (IF success THEN 1 ELSE 0),
      failedRequests      |-> stats0.failedRequests
                                + (IF failure THEN 1 ELSE 0),
      averageResponseTime |-> [total |-> TotalTime(list),
                               count |-> Len(list)]]

updateUsageStats(stats0, list, metric) ==
  LET success == metric.statusCode >= 200 /\ metric.statusCode < 300
  IN [totalRequests       |-> stats0.totalRequests + 1,
      successfulRequests  |-> stats0.successfulRequests
                                + (IF success THEN 1 ELSE 0),
      failedRequests      |-> stats0.failedRequests
                                + (IF success THEN 0 ELSE 1),
      averageResponseTime |-> [total |-> TotalTime(list),
                               count |-> Len(list)]]

(* SpecMonitor: recordMetric called up to MaxOver times more than          *)
(* MAX_METRICS.  The first MaxOver calls and those made at a full list     *)
(* carry any of MetricKinds; the calls between them record a success.      *)

MaxOver == 2

MetricKinds ==
  {[statusCode |-> 200, duration |-> 120],
   [statusCode |-> 302, duration |-> 5],
   [statusCode |-> 500, duration |-> 30000]}

KindsAt(call) ==
  IF call <= MaxOver \/ call > MAX_METRICS
    THEN MetricKinds
    ELSE {[statusCode |-> 200, duration |-> 120]}

\* lines 181-191
RecordMetric(metric) ==
  /\ recorded < MAX_METRICS + MaxOver
  /\ LET pushed == Append(metrics, metric)
         kept == LastMetrics(pushed)
     IN /\ metrics' = kept
        /\ usageStats' = updateUsageStats(usageStats, kept, metric)
  /\ recorded' = recorded + 1
  /\ UNCHANGED <<limiterVars, extractVars, handlerVars, validatorVars>>

NextMonitor ==
  \E kind \in KindsAt(recorded + 1) :
    RecordMetric([requestId |-> recorded + 1,
                  statusCode |-> kind.statusCode,
                  duration |-> kind.duration])

SpecMonitor == InitLimiters /\ [][NextMonitor]_vars
-----------------------------------------------------------------------------
(* Properties of the monitoring service *)

\* C30: after any number of recordMetric calls the service holds at most
\* 1000 metrics, and they are the most recently recorded ones in the order
\* of recording; totalRequests is the number of calls made and equals
\* successfulRequests + failedRequests.
C30_LastThousand ==
  /\ Len(metrics) = Min(recorded, MAX_METRICS)
  /\ \A i \in DOMAIN metrics :
       metrics[i].requestId = recorded - Len(metrics) + i
  /\ usageStats.totalRequests = recorded
  /\ usageStats.totalRequests =
       usageStats.successfulRequests + usageStats.failedRequests

\* C30 witness: two calls after the list filled up it holds the calls 3 to
\* 1002; the failure recorded first is no longer in it and is still counted.
C30_Witness ==
  /\ recorded = MAX_METRICS + 2
  /\ Len(metrics) = MAX_METRICS
  /\ metrics[1].requestId = 3
  /\ \A i \in DOMAIN metrics : metrics[i].statusCode = 200
  /\ usageStats.failedRequests = 1
  /\ usageStats.successfulRequests = MAX_METRICS + 1
-----------------------------------------------------------------------------
(* The health endpoint, app/api/health/route.ts.  GET takes no request and *)
(* reads no header: who sent a request is history only (window).           *)

HEALTH_RATE_LIMIT == 60    \* requests per minute per IP, as documented

\* lines 10-34: the environment report, the two probes (each true or false,
\* a probe that throws counts as false), the response
HealthGet(req, huggingFace, github) ==
  LET sender == getClientIP(req)
      envValidation == validateEnvironment(env)
      overallStatus ==
        IF envValidation.isValid /\ huggingFace /\ github
          THEN "healthy" ELSE "degraded"
  IN /\ WindowOpen(sender, now) =>
          window[sender].calls < HEALTH_RATE_LIMIT + MaxOver
     /\ response' =
          [status |-> 200,
           body |-> [status |-> overallStatus,
                     environment |-> envValidation,
                     dependencies |-> [huggingFace |-> huggingFace,
                                       github |-> github]]]
     /\ window' = NoteCall(sender, now, TRUE)
     /\ UNCHANGED <<now, rateLimitMap, saveRateLimitMap, ret, extractVars,
                    validatorVars, monitorVars, env, inflight, stats>>

HealthEnvs ==
  {[HF_API_KEY |-> Str(<<"hf_", "a*201">>), GITHUB_TOKEN |-> Str(<<"ghp_", "x">>)],
   [HF_API_KEY |-> Undefined, GITHUB_TOKEN |-> Undefined]}

InitHealth ==
  /\ InitLimiter /\ InitNoMonitor
  /\ InitNoExtract
  /\ InitNoValidator
  /\ env \in HealthEnvs
  /\ inflight = EmptyBag
  /\ response = NoResponse
  /\ stats = NoStats

NextHealth ==
  \/ \E req \in RequestHeaders, huggingFace \in BOOLEAN, github \in BOOLEAN :
        HealthGet(req, huggingFace, github)
  \/ Tick(HandlerInstants)

SpecHealth == InitHealth /\ [][NextHealth]_vars
-----------------------------------------------------------------------------
(* Properties of the health endpoint *)

\* every request is answered with the report, status 200
HealthAlwaysAnswers ==
  response.status \in {0, 200}

\* C23 as stated: of the health requests one address makes within one
\* minute at most 60 are answered with the report; a further one is
\* rejected.
C23_Original ==
  \A ip \in DOMAIN window :
    window[ip].calls > HEALTH_RATE_LIMIT => response.status # 200
-----------------------------------------------------------------------------
(* SpecAgree: one prompt given to validatePrompt of generate/route.ts and  *)
(* to validatePrompt of lib/validation.ts.                                 *)

InitAgree ==
  /\ \E prompt \in LibPrompts :
       subject = [fn |-> "validatePrompt", arg |-> prompt]
  /\ verdicts = <<>>
  /\ InitLimiter /\ InitNoMonitor
  /\ InitNoExtract
  /\ InitNoHandler

ValidatePromptInRoute ==
  /\ subject.fn = "validatePrompt"
  /\ Returned(validatePrompt(subject.arg))
  /\ UNCHANGED subject

NextAgree ==
  \/ ValidatePromptInRoute
  \/ ValidatePrompt

SpecAgree == InitAgree /\ [][NextAgree]_vars
-----------------------------------------------------------------------------
(* Properties of the two prompt validators *)

\* the route's result carries one error, the library's a list of them
FromRoute(result) == "error" \in DOMAIN result
FromLibrary(result) == "errors" \in DOMAIN result

\* C24 as stated: the generation endpoint's validator rejects a prompt
\* exactly when validatePrompt of lib/validation.ts reports isValid false
\* for it.
C24_Original ==
  \A i, j \in DOMAIN verdicts :
    (FromRoute(verdicts[i]) /\ FromLibrary(verdicts[j]))
      => verdicts[i].isValid = verdicts[j].isValid

\* a prompt with no white space at either end and no import or require
PlainPrompt(prompt) ==
  prompt.t = "str" =>
    /\ Trim(prompt.v) = prompt.v
    /\ \A i \in DOMAIN prompt.v :
         prompt.v[i] \notin {"import", "IMPORT", "require("}

\* on such prompts, and on values that are no strings, the two agree
AgreeOnPlainPrompts ==
  PlainPrompt(subject.arg) => C24_Original
-----------------------------------------------------------------------------
(* Properties of the quota a request consumes *)

\* one unit of ip's quota was taken from the map: 1 more in a live window,
\* a window opened at count 1 otherwise; nothing else in the map changed
Consumed(old, new, ip, t) ==
  /\ DOMAIN new = DOMAIN old \cup {ip}
  /\ \A other \in DOMAIN old \ {ip} : new[other] = old[other]
  /\ new[ip].count = (IF Live(old, ip, t) THEN old[ip].count + 1 ELSE 1)

C25_State ==
  \A ip \in DOMAIN rateLimitMap :
    Live(rateLimitMap, ip, now) =>
      /\ ip \in DOMAIN window
      /\ rateLimitMap[ip].count = window[ip].passed

C25_Step ==
  LET admitted == BagCardinality(inflight') = BagCardinality(inflight) + 1
  IN \* a request that passes the rate check takes one unit, at once
     /\ admitted =>
          \E ip \in DOMAIN rateLimitMap' \cup DOMAIN saveRateLimitMap' :
            \/ /\ Consumed(rateLimitMap, rateLimitMap', ip, now)
               /\ saveRateLimitMap' = saveRateLimitMap
            \/ /\ Consumed(saveRateLimitMap, saveRateLimitMap', ip, now)
               /\ rateLimitMap' = rateLimitMap
     \* no other step writes a count: not the one that answers 400, 500,
     \* 503 or 408, not the one that answers 200, not a refusal
     /\ ~admitted =>
          /\ rateLimitMap' = rateLimitMap
          /\ saveRateLimitMap' = saveRateLimitMap
     \* a request that finds its quota used up is answered 429
     /\ \A ip \in DOMAIN rateLimitMap :
          (Called(ip) /\ Live(rateLimitMap, ip, now)
             /\ rateLimitMap[ip].count >= RATE_LIMIT_MAX_REQUESTS)
            => /\ ~admitted
               /\ response'.status = 429

\* C25: a request that passes the rate check takes one unit of its
\* client's quota when it passes, and no later step gives it back, whatever
\* the request is answered with: the count of a live window is the number of
\* requests that passed the check in it, and the request that finds it at
\* the maximum is answered 429.
C25_NoRefund == []C25_State /\ [][C25_Step]_vars

\* C25 witness: the tenth request of a window was answered 400 for its
\* prompt and the window's count stands at 10.
C25_Witness ==
  \E ip \in DOMAIN rateLimitMap :
    /\ ~IsSaveResponse
    /\ response.status = 400
    /\ response.error = "Invalid characters detected in prompt"
    /\ inflight = EmptyBag
    /\ Live(rateLimitMap, ip, now)
    /\ rateLimitMap[ip].count = RATE_LIMIT_MAX_REQUESTS
    /\ window[ip].calls = RATE_LIMIT_MAX_REQUESTS
====
